---- MODULE Spec2Model ----
(***************************************************************************)
(* Model of Suzuri.  The text layout engine (src/text/layout.rs):          *)
(* TextData::layout with its LayoutContext state machine (stage 1) and the *)
(* final assembly (stage 2).  Coordinates are integers; every font metric  *)
(* of the model fonts is even, so the halvings of stage 2 are exact as     *)
(* they are in f32.  The FontSystem session (src/font_system.rs) with its  *)
(* renderers (src/renderer/gpu_renderer.rs) and its Mutexes.               *)
(***************************************************************************)
EXTENDS Integers, Sequences, FiniteSets, TLC

VARIABLES
    config,    \* the TextLayoutConfig handed to layout
    texts,     \* TextData.texts, as far as the run loop has consumed it
    context,   \* LayoutContext: lines, line_fragment, word_fragment
    pc,        \* "layout" while the run loop executes, then "done" or "panic"
    out,       \* the returned TextLayout: <<>> until layout returns
    font_system,  \* the FontSystem: font_storage, cpu_renderer, gpu_renderer
    callbacks, \* the callbacks the last FontSystem call invoked, in order
    last_call, \* the last FontSystem call: its name, argument and outcome
    lookups,   \* the glyph ids the CPU cache was asked for since it was empty
    locks,     \* the holder of each Mutex of the FontSystem, if any
    threads,   \* where each client thread is in its FontSystem call
    line_buf,  \* text.rs: the line buffer under construction, if any
    line_records,  \* text.rs: the LineRecords committed so far (`lines`)
    word_buf,  \* text.rs: the fragments of the last word appended
    instance_buffer,  \* WgpuResources: the size of the instance buffer in bytes
    current_offset,   \* WgpuRenderer::render: its offset cell, <<>> outside a call
    draws      \* the byte ranges the draw calls of the render call have used

layout_vars == <<config, texts, context, pc, out>>
session_vars == <<font_system, callbacks, last_call, lookups, locks, threads>>
buffer_vars == <<line_buf, line_records, word_buf>>
wgpu_vars == <<instance_buffer, current_offset, draws>>
vars == <<config, texts, context, pc, out, font_system, callbacks, last_call, lookups, locks,
          threads, line_buf, line_records, word_buf, instance_buffer, current_offset, draws>>

----------------------------------------------------------------------------
(* Bounds of the model.                                                    *)

\* Runs plus characters of one input.
MaxInput == 4

----------------------------------------------------------------------------
(* Option<T>: None is the empty sequence, Some(v) is <<v>>.                *)

None == <<>>
Some(v) == <<v>>
IsSome(o) == o # <<>>
Unwrap(o) == o[1]

Max(a, b) == IF a >= b THEN a ELSE b

----------------------------------------------------------------------------
(* The font storage collaborator: two fonts with horizontal line metrics,  *)
(* one font without them, and one handle the storage does not know.        *)

FontIds == {"F1", "F2", "FV", "FX"}

\* font_storage.font(font_id): Some for a loaded face.
font(font_id) == IF font_id \in {"F1", "F2", "FV"} THEN Some(font_id) ELSE None

\* Font::horizontal_line_metrics(px): linear in the size.
horizontal_line_metrics(f, px) ==
    CASE f = "F1" -> Some([ascent |-> 4 * px, descent |-> -2 * px, line_gap |-> 0])
      [] f = "F2" -> Some([ascent |-> 6 * px, descent |-> -4 * px, line_gap |-> 2 * px])
      [] OTHER    -> None

\* The characters of the input alphabet.  "A" is an ordinary letter, which
\* overhangs its advance in the font F2, "acute" a combining mark drawn left
\* of its origin with no advance.
HardBreaks == {"\n", "U+2028", "U+2029"}
Letters == {"A", "acute"}
Chars == Letters \cup {" ", "\t", "\n"}

\* Font::lookup_glyph_index(ch): the model's glyph index is the character.
lookup_glyph_index(f, ch) == ch

\* Font::metrics_indexed(glyph_idx, px): linear in the size.
metrics_indexed(f, glyph_idx, px) ==
    CASE glyph_idx = "A" ->
           [xmin |-> 0, ymin |-> 0, width |-> IF f = "F2" THEN 6 * px ELSE 4 * px,
            height |-> 4 * px, advance_width |-> 4 * px]
      [] glyph_idx = "acute" ->
           [xmin |-> -6 * px, ymin |-> 4 * px, width |-> 2 * px, height |-> 2 * px,
            advance_width |-> 0]
      [] OTHER ->
           [xmin |-> 0, ymin |-> 0, width |-> 0, height |-> 0,
            advance_width |-> 2 * px]

\* Font::metrics(ch, px)
metrics(f, ch, px) == metrics_indexed(f, lookup_glyph_index(f, ch), px)

\* Font::horizontal_kern_indexed(left, right, px): F1 kerns the pair (A, A).
horizontal_kern_indexed(f, left, right, px) ==
    IF f = "F1" /\ left = "A" /\ right = "A" THEN Some(-2 * px) ELSE None

\* GlyphId::new(font_id, glyph_idx, size)
GlyphId(font_id, glyph_idx, size) ==
    [font_id |-> font_id, glyph_index |-> glyph_idx, font_size |-> size]

----------------------------------------------------------------------------
(* LayoutFragment                                                          *)

\* max_length: Some(w), or None for f32::INFINITY.
GreaterThan(x, max_length) == IsSome(max_length) /\ x > Unwrap(max_length)

GlyphPosition(id, m, x, user_data) ==
    [glyph_id |-> id, glyph_metrics |-> m, x |-> x,
     y |-> -(m.ymin + m.height), user_data |-> user_data]

\* LayoutFragment::new
new(glyph_idx, f, font_id, size, line_metrics, user_data) ==
    LET m == metrics_indexed(f, glyph_idx, size)
    IN  [buffer |-> <<GlyphPosition(GlyphId(font_id, glyph_idx, size), m, m.xmin, user_data)>>,
         instance_length |-> m.xmin + m.width,
         max_ascent |-> line_metrics.ascent,
         max_descent |-> line_metrics.descent,
         max_line_gap |-> line_metrics.line_gap,
         next_origin_x |-> m.advance_width]

\* LayoutFragment::new_blank
new_blank ==
    [buffer |-> <<>>, instance_length |-> 0, max_ascent |-> 0, max_descent |-> 0,
     max_line_gap |-> 0, next_origin_x |-> 0]

\* The kerning lookup of push_char and try_push_char_in_length: the last
\* glyph of the buffer must have the same font id (its size is not compared).
push_kern(self, glyph_idx, f, font_id, size) ==
    IF self.buffer = <<>> THEN 0
    ELSE LET left == self.buffer[Len(self.buffer)].glyph_id
         IN  IF left.font_id = font_id
             THEN LET k == horizontal_kern_indexed(f, left.glyph_index, glyph_idx, size)
                  IN  IF IsSome(k) THEN Unwrap(k) ELSE 0
             ELSE 0

\* LayoutFragment::push_char
push_char(self, glyph_idx, f, font_id, size, line_metrics, user_data) ==
    LET m == metrics_indexed(f, glyph_idx, size)
        origin == self.next_origin_x + push_kern(self, glyph_idx, f, font_id, size)
    IN  [buffer |-> Append(self.buffer,
                           GlyphPosition(GlyphId(font_id, glyph_idx, size), m,
                                         origin + m.xmin, user_data)),
         instance_length |-> Max(self.instance_length, origin + m.xmin + m.width),
         max_ascent |-> Max(self.max_ascent, line_metrics.ascent),
         max_descent |-> Max(self.max_descent, line_metrics.descent),
         max_line_gap |-> Max(self.max_line_gap, line_metrics.line_gap),
         next_origin_x |-> origin + m.advance_width]

\* A variant of try_push_char_in_length that raises the three line-metric
\* maxima before it tests the width.
try_push_char_in_length_metrics_first(self, glyph_idx, f, font_id, size, line_metrics, user_data, max_length) ==
    LET m == metrics_indexed(f, glyph_idx, size)
        fixed_next_origin_x == self.next_origin_x + push_kern(self, glyph_idx, f, font_id, size)
        raised == [self EXCEPT !.max_ascent = Max(@, line_metrics.ascent),
                               !.max_descent = Max(@, line_metrics.descent),
                               !.max_line_gap = Max(@, line_metrics.line_gap)]
    IN  IF GreaterThan(fixed_next_origin_x + m.xmin + m.width, max_length)
        THEN [result |-> FALSE, self |-> raised]
        ELSE [result |-> TRUE,
              self |-> [raised EXCEPT
                          !.buffer = Append(@, GlyphPosition(GlyphId(font_id, glyph_idx, size), m,
                                                             fixed_next_origin_x + m.xmin,
                                                             user_data)),
                          !.instance_length = Max(@, fixed_next_origin_x + m.xmin + m.width),
                          !.next_origin_x = fixed_next_origin_x + m.advance_width]]

\* LayoutFragment::try_push_char_in_length: the returned bool and the
\* fragment as the call leaves it.
try_push_char_in_length(self, glyph_idx, f, font_id, size, line_metrics, user_data, max_length) ==
    LET m == metrics_indexed(f, glyph_idx, size)
        fixed_next_origin_x == self.next_origin_x + push_kern(self, glyph_idx, f, font_id, size)
    IN  IF GreaterThan(fixed_next_origin_x + m.xmin + m.width, max_length)
        THEN [result |-> FALSE, self |-> self]
        ELSE [result |-> TRUE,
              self |-> [buffer |-> Append(self.buffer,
                                          GlyphPosition(GlyphId(font_id, glyph_idx, size), m,
                                                        fixed_next_origin_x + m.xmin, user_data)),
                        instance_length |-> Max(self.instance_length,
                                                fixed_next_origin_x + m.xmin + m.width),
                        max_ascent |-> Max(self.max_ascent, line_metrics.ascent),
                        max_descent |-> Max(self.max_descent, line_metrics.descent),
                        max_line_gap |-> Max(self.max_line_gap, line_metrics.line_gap),
                        next_origin_x |-> fixed_next_origin_x + m.advance_width]]

\* The kerning lookup of try_concat_in_length: same font id and same size.
concat_kern(self, other) ==
    IF self.buffer = <<>> \/ other.buffer = <<>> THEN 0
    ELSE LET last == self.buffer[Len(self.buffer)].glyph_id
             first == other.buffer[1].glyph_id
         IN  IF last.font_id = first.font_id /\ last.font_size = first.font_size
             THEN LET fo == font(last.font_id)
                      k == IF IsSome(fo)
                           THEN horizontal_kern_indexed(Unwrap(fo), last.glyph_index,
                                                        first.glyph_index, last.font_size)
                           ELSE None
                  IN  IF IsSome(k) THEN Unwrap(k) ELSE 0
             ELSE 0

\* A variant of ShiftX that leaves the glyphs where the other fragment had
\* them.
ShiftX_unshifted(buffer, dx) == buffer

\* for glyph in &mut other.buffer { glyph.x += fixed_next_origin_x }
ShiftX(buffer, dx) == [i \in 1..Len(buffer) |-> [buffer[i] EXCEPT !.x = @ + dx]]

\* LayoutFragment::try_concat_in_length: the returned bool and both
\* fragments as the call leaves them.
try_concat_in_length(self, other, max_length) ==
    LET fixed_next_origin_x == self.next_origin_x + concat_kern(self, other)
        new_instance_length == fixed_next_origin_x + other.instance_length
    IN  IF GreaterThan(new_instance_length, max_length)
        THEN [result |-> FALSE, self |-> self, other |-> other]
        ELSE [result |-> TRUE,
              self |-> [buffer |-> self.buffer \o ShiftX(other.buffer, fixed_next_origin_x),
                        instance_length |-> Max(self.instance_length, new_instance_length),
                        max_ascent |-> Max(self.max_ascent, other.max_ascent),
                        max_descent |-> Max(self.max_descent, other.max_descent),
                        max_line_gap |-> Max(self.max_line_gap, other.max_line_gap),
                        next_origin_x |-> fixed_next_origin_x + other.next_origin_x],
              other |-> [other EXCEPT !.buffer = <<>>]]

----------------------------------------------------------------------------
(* LayoutContext                                                           *)

\* LayoutContext::new
LayoutContext_new == [lines |-> <<>>, line_fragment |-> None, word_fragment |-> None]

Context(lines, line_fragment, word_fragment) ==
    [lines |-> lines, line_fragment |-> line_fragment, word_fragment |-> word_fragment]

\* self.config.max_width.unwrap_or(f32::INFINITY)
config_max_length(cfg) == cfg.max_width

\* A variant of handle_newline that commits nothing when neither a line nor
\* a word is pending.
handle_newline_collapsing(self, cfg) ==
    LET lo == self.line_fragment
        wo == self.word_fragment
    IN  CASE IsSome(lo) /\ IsSome(wo) ->
               LET r == try_concat_in_length(Unwrap(lo), Unwrap(wo), config_max_length(cfg))
               IN  IF r.result
                   THEN Context(Append(self.lines, r.self), None, None)
                   ELSE Context(self.lines \o <<r.self, r.other>>, None, None)
          [] IsSome(lo) /\ ~IsSome(wo) -> Context(Append(self.lines, Unwrap(lo)), None, None)
          [] ~IsSome(lo) /\ IsSome(wo) -> Context(Append(self.lines, Unwrap(wo)), None, None)
          [] OTHER -> Context(self.lines, None, None)

\* LayoutContext::handle_newline
handle_newline(self, cfg) ==
    LET lo == self.line_fragment
        wo == self.word_fragment
    IN  CASE IsSome(lo) /\ IsSome(wo) ->
               LET r == try_concat_in_length(Unwrap(lo), Unwrap(wo), config_max_length(cfg))
               IN  IF r.result
                   THEN Context(Append(self.lines, r.self), None, None)
                   ELSE Context(self.lines \o <<r.self, r.other>>, None, None)
          [] IsSome(lo) /\ ~IsSome(wo) -> Context(Append(self.lines, Unwrap(lo)), None, None)
          [] ~IsSome(lo) /\ IsSome(wo) -> Context(Append(self.lines, Unwrap(wo)), None, None)
          [] OTHER -> Context(Append(self.lines, new_blank), None, None)

\* LayoutContext::handle_space
handle_space(self, cfg, glyph_idx, f, font_id, font_size, line_metrics, user_data) ==
    LET lo == self.line_fragment
        wo == self.word_fragment
        push(frag) == push_char(frag, glyph_idx, f, font_id, font_size, line_metrics, user_data)
        fresh == new(glyph_idx, f, font_id, font_size, line_metrics, user_data)
    IN  IF cfg.wrap_style = "WordWrap"
        THEN CASE IsSome(lo) /\ IsSome(wo) ->
                    LET r == try_concat_in_length(Unwrap(lo), Unwrap(wo), config_max_length(cfg))
                    IN  IF r.result
                        THEN Context(self.lines, Some(push(r.self)), None)
                        ELSE Context(Append(self.lines, r.self), Some(push(r.other)), None)
               [] IsSome(lo) /\ ~IsSome(wo) -> Context(self.lines, Some(push(Unwrap(lo))), None)
               [] ~IsSome(lo) /\ IsSome(wo) -> Context(self.lines, Some(push(Unwrap(wo))), None)
               [] OTHER -> Context(self.lines, Some(fresh), None)
        ELSE \* CharWrap and NoWrap: the word fragment taken is dropped
             IF IsSome(lo)
             THEN Context(self.lines, Some(push(Unwrap(lo))), None)
             ELSE Context(self.lines, Some(fresh), None)

\* A variant of tab_advance that leaves the line metrics as they are.
tab_advance_keeping_metrics(lf, tab_size, line_metrics) ==
    [lf EXCEPT !.instance_length = @ + tab_size,
               !.next_origin_x = @ + tab_size]

\* The tab advance of handle_tab on a line fragment.
tab_advance(lf, tab_size, line_metrics) ==
    [lf EXCEPT !.instance_length = @ + tab_size,
               !.next_origin_x = @ + tab_size,
               !.max_ascent = Max(@, line_metrics.ascent),
               !.max_descent = Max(@, line_metrics.descent),
               !.max_line_gap = Max(@, line_metrics.line_gap)]

\* The fresh line handle_tab makes when no line is pending.
tab_blank(tab_size, line_metrics) ==
    [new_blank EXCEPT !.instance_length = tab_size,
                      !.next_origin_x = tab_size,
                      !.max_ascent = line_metrics.ascent,
                      !.max_descent = line_metrics.descent,
                      !.max_line_gap = line_metrics.line_gap]

\* LayoutContext::handle_tab
handle_tab(self, cfg, f, font_size, line_metrics) ==
    LET space_size == metrics(f, " ", font_size).advance_width
        tab_size == space_size * cfg.tab_size_in_spaces
        lo == self.line_fragment
        wo == self.word_fragment
        \* first statement: fold the pending word into the line
        folded ==
            IF IsSome(wo)
            THEN IF IsSome(lo)
                 THEN LET r == try_concat_in_length(Unwrap(lo), Unwrap(wo), config_max_length(cfg))
                      IN  IF r.result
                          THEN Context(self.lines, Some(r.self), None)
                          ELSE Context(Append(self.lines, r.self), Some(r.other), None)
                 ELSE Context(self.lines, wo, None)
            ELSE self
    IN  IF IsSome(folded.line_fragment)
        THEN [folded EXCEPT !.line_fragment =
                 Some(tab_advance(Unwrap(folded.line_fragment), tab_size, line_metrics))]
        ELSE [folded EXCEPT !.line_fragment = Some(tab_blank(tab_size, line_metrics))]

\* LayoutContext::handle_char
handle_char(self, cfg, glyph_idx, f, font_id, font_size, line_metrics, user_data) ==
    LET lo == self.line_fragment
        wo == self.word_fragment
        push(frag) == push_char(frag, glyph_idx, f, font_id, font_size, line_metrics, user_data)
        try_push(frag) == try_push_char_in_length(frag, glyph_idx, f, font_id, font_size,
                                                  line_metrics, user_data, config_max_length(cfg))
        fresh == new(glyph_idx, f, font_id, font_size, line_metrics, user_data)
    IN  CASE cfg.wrap_style = "WordWrap" ->
               ( CASE IsSome(lo) /\ IsSome(wo) ->
                        LET w_result == try_push(Unwrap(wo))
                        IN  IF w_result.result
                            THEN Context(self.lines, lo, Some(w_result.self))
                            ELSE Context(self.lines \o <<Unwrap(lo), w_result.self>>,
                                         None, Some(fresh))
                   [] IsSome(lo) /\ ~IsSome(wo) -> Context(self.lines, lo, Some(fresh))
                   [] ~IsSome(lo) /\ IsSome(wo) ->
                        Context(self.lines, Some(push(Unwrap(wo))), None)
                   [] OTHER -> Context(self.lines, Some(fresh), None) )
          [] cfg.wrap_style = "CharWrap" ->
               IF IsSome(lo)
               THEN LET result == try_push(Unwrap(lo))
                    IN  IF result.result
                        THEN Context(self.lines, Some(result.self), None)
                        ELSE Context(Append(self.lines, result.self), Some(fresh), None)
               ELSE Context(self.lines, Some(fresh), None)
          [] OTHER -> \* NoWrap
               IF IsSome(lo)
               THEN Context(self.lines, Some(push(Unwrap(lo))), None)
               ELSE Context(self.lines, Some(fresh), None)

\* LayoutContext::flush.  The match scrutinee is (wrap_style, word_fragment,
\* line_fragment): the second position is the word, the third the line, and
\* the arms bind them in that order.
flush(self, cfg) ==
    LET second == self.word_fragment
        third == self.line_fragment
    IN  CASE cfg.wrap_style = "WordWrap" /\ ~IsSome(second) /\ IsSome(third) ->
               Context(Append(self.lines, Unwrap(third)), None, None)
          [] cfg.wrap_style = "WordWrap" /\ IsSome(second) /\ ~IsSome(third) ->
               Context(Append(self.lines, Unwrap(second)), None, None)
          [] cfg.wrap_style = "WordWrap" /\ IsSome(second) /\ IsSome(third) ->
               LET r == try_concat_in_length(Unwrap(second), Unwrap(third), config_max_length(cfg))
               IN  IF r.result
                   THEN Context(Append(self.lines, r.self), None, None)
                   ELSE Context(self.lines \o <<r.self, r.other>>, None, None)
          [] cfg.wrap_style \in {"CharWrap", "NoWrap"} /\ IsSome(second) ->
               Context(Append(self.lines, Unwrap(second)), None, None)
          [] OTHER -> Context(self.lines, None, None)

----------------------------------------------------------------------------
(* TextData::layout, stage 2: totals and final assembly                    *)

\* line_height of a committed fragment
line_height_of(fragment, cfg) ==
    LET content_height == fragment.max_ascent - fragment.max_descent
        original_line_height == content_height + fragment.max_line_gap
    IN  original_line_height * cfg.line_height_scale

\* total_height after the first n lines (the += of the totals loop)
RECURSIVE sum_line_height(_, _, _)
sum_line_height(lines, cfg, n) ==
    IF n = 0 THEN 0
    ELSE sum_line_height(lines, cfg, n - 1) + line_height_of(lines[n], cfg)

\* A variant of fold_max_line_width that keeps the width of the last line
\* instead of the widest.
last_line_width(lines, n) ==
    IF n = 0 THEN 0 ELSE lines[n].instance_length

\* max_line_width after the first n lines (starts at 0.0)
RECURSIVE fold_max_line_width(_, _)
fold_max_line_width(lines, n) ==
    IF n = 0 THEN 0
    ELSE Max(fold_max_line_width(lines, n - 1), lines[n].instance_length)

\* A variant of Half that does not halve.
Unhalved(x) == x

\* x / 2.0 (every halved quantity of the model is even)
Half(x) == x \div 2

\* A variant of TextLayoutLine whose bottom is the line height alone, as if
\* every line started at y = 0.
TextLayoutLine_bottom_from_zero(fragment, line_height, current_y, x_offset, baseline_y) ==
    [line_height |-> line_height,
     line_width |-> fragment.instance_length,
     top |-> current_y,
     bottom |-> line_height,
     glyphs |-> [k \in 1..Len(fragment.buffer) |->
                   [fragment.buffer[k] EXCEPT !.x = @ + x_offset, !.y = @ + baseline_y]]]

\* A variant of TextLayoutLine that clamps a negative x_offset to zero.
TextLayoutLine_clamped(fragment, line_height, current_y, x_offset, baseline_y) ==
    [line_height |-> line_height,
     line_width |-> fragment.instance_length,
     top |-> current_y,
     bottom |-> current_y + line_height,
     glyphs |-> [k \in 1..Len(fragment.buffer) |->
                   [fragment.buffer[k] EXCEPT !.x = @ + Max(0, x_offset),
                                              !.y = @ + baseline_y]]]

\* The TextLayoutLine pushed for one processed line (with its glyphs moved
\* to absolute coordinates).
TextLayoutLine(fragment, line_height, current_y, x_offset, baseline_y) ==
    [line_height |-> line_height,
     line_width |-> fragment.instance_length,
     top |-> current_y,
     bottom |-> current_y + line_height,
     glyphs |-> [k \in 1..Len(fragment.buffer) |->
                   [fragment.buffer[k] EXCEPT !.x = @ + x_offset, !.y = @ + baseline_y]]]

\* A variant of assemble that advances the cursor before it emits the line.
assemble_advancing_first(lines, cfg) ==
    LET total_height == sum_line_height(lines, cfg, Len(lines))
        max_line_width == fold_max_line_width(lines, Len(lines))
        container_width == IF IsSome(cfg.max_width) THEN Unwrap(cfg.max_width)
                           ELSE max_line_width
        layout_height == IF IsSome(cfg.max_height) THEN Unwrap(cfg.max_height)
                         ELSE total_height
        start_y == CASE cfg.vertical_align = "Top" -> 0
                     [] cfg.vertical_align = "Middle" -> Half(layout_height - total_height)
                     [] OTHER -> layout_height - total_height
        final_line(i) ==
            LET fragment == lines[i]
                line_height == line_height_of(fragment, cfg)
                current_y == start_y + sum_line_height(lines, cfg, i)
                x_offset == CASE cfg.horizontal_align = "Left" -> 0
                              [] cfg.horizontal_align = "Center" ->
                                   Half(container_width - fragment.instance_length)
                              [] OTHER -> container_width - fragment.instance_length
                baseline_y == current_y + Half(line_height)
                              - Half(fragment.max_ascent + fragment.max_descent)
            IN  TextLayoutLine(fragment, line_height, current_y, x_offset, baseline_y)
    IN  [config |-> cfg,
         total_height |-> total_height,
         total_width |-> max_line_width,
         lines |-> [i \in 1..Len(lines) |-> final_line(i)]]

\* The TextLayout returned for the committed lines.
assemble(lines, cfg) ==
    LET total_height == sum_line_height(lines, cfg, Len(lines))
        max_line_width == fold_max_line_width(lines, Len(lines))
        container_width == IF IsSome(cfg.max_width) THEN Unwrap(cfg.max_width)
                           ELSE max_line_width
        layout_height == IF IsSome(cfg.max_height) THEN Unwrap(cfg.max_height)
                         ELSE total_height
        start_y == CASE cfg.vertical_align = "Top" -> 0
                     [] cfg.vertical_align = "Middle" -> Half(layout_height - total_height)
                     [] OTHER -> layout_height - total_height
        final_line(i) ==
            LET fragment == lines[i]
                line_height == line_height_of(fragment, cfg)
                current_y == start_y + sum_line_height(lines, cfg, i - 1)
                x_offset == CASE cfg.horizontal_align = "Left" -> 0
                              [] cfg.horizontal_align = "Center" ->
                                   Half(container_width - fragment.instance_length)
                              [] OTHER -> container_width - fragment.instance_length
                baseline_y == current_y + Half(line_height)
                              - Half(fragment.max_ascent + fragment.max_descent)
            IN  TextLayoutLine(fragment, line_height, current_y, x_offset, baseline_y)
    IN  [config |-> cfg,
         total_height |-> total_height,
         total_width |-> max_line_width,
         lines |-> [i \in 1..Len(lines) |-> final_line(i)]]

----------------------------------------------------------------------------
(* TextData::layout and TextData::measure as functions of their inputs     *)

\* for ch in text.content.chars(): the context after the first n characters
\* of a run whose font is known and has horizontal line metrics.
RECURSIVE layout_chars(_, _, _, _)
layout_chars(context0, cfg, text, n) ==
    IF n = 0 THEN context0
    ELSE LET self == layout_chars(context0, cfg, text, n - 1)
             ch == text.content[n]
             f == Unwrap(font(text.font_id))
             line_metrics == Unwrap(horizontal_line_metrics(f, text.font_size))
             glyph_idx == lookup_glyph_index(f, ch)
         IN  CASE ch \in HardBreaks -> handle_newline(self, cfg)
               [] ch = " " -> handle_space(self, cfg, glyph_idx, f, text.font_id,
                                           text.font_size, line_metrics, text.user_data)
               [] ch = "\t" -> handle_tab(self, cfg, f, text.font_size, line_metrics)
               [] OTHER -> handle_char(self, cfg, glyph_idx, f, text.font_id,
                                       text.font_size, line_metrics, text.user_data)

\* A variant of layout_run that commits the pending fragments before the
\* run's first character, so that nothing carries over a run boundary.
layout_run_isolated(context0, cfg, text) ==
    IF ~IsSome(font(text.font_id)) THEN Some(context0)
    ELSE IF ~IsSome(horizontal_line_metrics(Unwrap(font(text.font_id)), text.font_size))
         THEN None
         ELSE Some(layout_chars(flush(context0, cfg), cfg, text, Len(text.content)))

\* One iteration of `for text in &self.texts`: Some(context) as the run
\* leaves it, None when the iteration panics (unimplemented!).
layout_run(context0, cfg, text) ==
    IF ~IsSome(font(text.font_id)) THEN Some(context0)
    ELSE IF ~IsSome(horizontal_line_metrics(Unwrap(font(text.font_id)), text.font_size))
         THEN None
         ELSE Some(layout_chars(context0, cfg, text, Len(text.content)))

\* The context after the first n runs, None once a run has panicked.
RECURSIVE layout_texts(_, _, _)
layout_texts(ts, cfg, n) ==
    IF n = 0 THEN Some(LayoutContext_new)
    ELSE LET before == layout_texts(ts, cfg, n - 1)
         IN  IF IsSome(before) THEN layout_run(Unwrap(before), cfg, ts[n]) ELSE None

\* TextData::layout: Some(TextLayout), or None when the call panics.
layout(ts, cfg) ==
    LET context0 == layout_texts(ts, cfg, Len(ts))
    IN  IF IsSome(context0)
        THEN Some(assemble(flush(Unwrap(context0), cfg).lines, cfg))
        ELSE None

\* A variant of measure that returns the height first.
measure_height_first(ts, cfg) ==
    LET l == layout(ts, cfg)
    IN  IF IsSome(l) THEN Some(<<Unwrap(l).total_height, Unwrap(l).total_width>>) ELSE None

\* TextData::measure: Some([width, height]), or None when layout panics.
measure(ts, cfg) ==
    LET l == layout(ts, cfg)
    IN  IF IsSome(l) THEN Some(<<Unwrap(l).total_width, Unwrap(l).total_height>>) ELSE None

----------------------------------------------------------------------------
(* The inputs                                                              *)

WrapStyles == {"WordWrap", "CharWrap", "NoWrap"}
HorizontalAligns == {"Left", "Center", "Right"}
VerticalAligns == {"Top", "Middle", "Bottom"}

\* TextLayoutConfig::default
DefaultConfig ==
    [max_width |-> None, max_height |-> None, horizontal_align |-> "Left",
     vertical_align |-> "Top", line_height_scale |-> 1, wrap_style |-> "WordWrap",
     tab_size_in_spaces |-> 4]

\* The configurations layout is called with: every wrap style and width
\* limit, under the default presentation and two others that between them
\* use every alignment, a zero and a doubled line height scale, a height
\* limit and another tab size.
MaxWidths == {None, Some(2), Some(6)}
Presentations ==
    { DefaultConfig,
      [DefaultConfig EXCEPT !.horizontal_align = "Center", !.vertical_align = "Middle",
                            !.line_height_scale = 2, !.max_height = Some(40),
                            !.tab_size_in_spaces = 1],
      [DefaultConfig EXCEPT !.horizontal_align = "Right", !.vertical_align = "Bottom",
                            !.line_height_scale = 0] }
Configs ==
    { [p EXCEPT !.wrap_style = w, !.max_width = mw] :
        p \in Presentations, w \in WrapStyles, mw \in MaxWidths }

\* The (font handle, font size) a run may carry, and the payload.
RunFonts == {<<"F1", 1>>, <<"F1", 2>>, <<"F2", 1>>, <<"FV", 1>>, <<"FX", 1>>}
UserData == {"U"}

TextElement(font_id, font_size, content, user_data) ==
    [font_id |-> font_id, font_size |-> font_size, content |-> content,
     user_data |-> user_data]

RECURSIVE CountChars(_)
CountChars(ts) ==
    IF ts = <<>> THEN 0 ELSE Len(ts[1].content) + CountChars(Tail(ts))

InputSize == Len(texts) + CountChars(texts)

----------------------------------------------------------------------------
(* The renderers' collaborators                                            *)

\* The glyphs of a layout in reading order: for line in lines, for glyph in
\* line.glyphs.
RECURSIVE GlyphsOfLines(_)
GlyphsOfLines(ls) ==
    IF ls = <<>> THEN <<>> ELSE ls[1].glyphs \o GlyphsOfLines(Tail(ls))

Min(a, b) == IF a <= b THEN a ELSE b

\* FontStorage::new, load_font_binary, remove_face: the storage as the set
\* of the faces it holds.
FontStorage_new == {}
load_font_binary(self, face) == self \cup {face}
remove_face(self, face) == self \ {face}

\* rasterise_indexed: the bitmap of a glyph, as its width and height.
rasterize(glyph_id) ==
    LET m == metrics_indexed(glyph_id.font_id, glyph_id.glyph_index, glyph_id.font_size)
    IN  [width |-> m.width, height |-> m.height]

InRange(size, range) == range[1] <= size /\ size <= range[2]

----------------------------------------------------------------------------
(* The CPU glyph cache and the CPU renderer: one LRU cache per configured  *)
(* size range, the least recently used entry first.                        *)

\* CpuRenderer::new(configs): one empty cache per (font_size_range,
\* capacity).
CpuRenderer_new(configs) ==
    [caches |-> [i \in 1..Len(configs) |->
                   [font_size_range |-> configs[i].font_size_range,
                    capacity |-> configs[i].capacity,
                    entries |-> <<>>]]]

\* The cache whose size range contains the size of the glyph; 0 for none.
cpu_cache_index(self, glyph_id) ==
    LET matching == {i \in 1..Len(self.caches) :
                        InRange(glyph_id.font_size, self.caches[i].font_size_range)}
    IN  IF matching = {} THEN 0
        ELSE CHOOSE i \in matching : \A j \in matching : i <= j

\* A variant of cpu_cache_get that evicts the most recently used entry.
cpu_cache_get_evicting_newest(self, glyph_id) ==
    LET i == cpu_cache_index(self, glyph_id)
        bitmap == rasterize(glyph_id)
    IN  IF i = 0 THEN [renderer |-> self, bitmap |-> bitmap]
        ELSE LET c == self.caches[i]
                 Other(e) == e.glyph_id # glyph_id
                 hit == \E k \in 1..Len(c.entries) : c.entries[k].glyph_id = glyph_id
                 kept == IF hit THEN SelectSeq(c.entries, Other)
                         ELSE IF Len(c.entries) >= c.capacity
                              THEN SubSeq(c.entries, 1, Len(c.entries) - 1)
                              ELSE c.entries
             IN  [renderer |-> [self EXCEPT !.caches[i].entries =
                                   Append(kept, [glyph_id |-> glyph_id, bitmap |-> bitmap])],
                  bitmap |-> bitmap]

\* The cache lookup: no caching outside every size range; a hit moves the
\* entry to the most recently used end; a miss rasterises and inserts,
\* evicting the least recently used entry of a full cache.
cpu_cache_get(self, glyph_id) ==
    LET i == cpu_cache_index(self, glyph_id)
        bitmap == rasterize(glyph_id)
    IN  IF i = 0 THEN [renderer |-> self, bitmap |-> bitmap]
        ELSE LET c == self.caches[i]
                 Other(e) == e.glyph_id # glyph_id
                 hit == \E k \in 1..Len(c.entries) : c.entries[k].glyph_id = glyph_id
                 kept == IF hit THEN SelectSeq(c.entries, Other)
                         ELSE IF Len(c.entries) >= c.capacity THEN Tail(c.entries)
                              ELSE c.entries
             IN  [renderer |-> [self EXCEPT !.caches[i].entries =
                                   Append(kept, [glyph_id |-> glyph_id, bitmap |-> bitmap])],
                  bitmap |-> bitmap]

\* CpuRenderer::clear_cache: every cache loses its entries.
CpuRenderer_clear_cache(self) ==
    [caches |-> [i \in 1..Len(self.caches) |-> [self.caches[i] EXCEPT !.entries = <<>>]]]

\* The pixels of a bitmap drawn at (x, y) that lie inside the image.
PixelsInside(x, y, bitmap, image_size) ==
    LET cols == Min(x + bitmap.width, image_size[1]) - Max(x, 0)
        rows == Min(y + bitmap.height, image_size[2]) - Max(y, 0)
    IN  IF cols > 0 /\ rows > 0 THEN cols * rows ELSE 0

\* CpuRenderer::render: the glyphs in reading order, each bitmap from the
\* cache, the callback f once per pixel inside the image (the calls for one
\* glyph are recorded together with their number).
RECURSIVE CpuRenderer_render_glyphs(_, _, _, _)
CpuRenderer_render_glyphs(self, glyphs, image_size, calls) ==
    IF glyphs = <<>> THEN [renderer |-> self, calls |-> calls]
    ELSE LET g == glyphs[1]
             got == cpu_cache_get(self, g.glyph_id)
             n == PixelsInside(g.x, g.y, got.bitmap, image_size)
         IN  CpuRenderer_render_glyphs(
                 got.renderer, Tail(glyphs), image_size,
                 IF n > 0
                 THEN Append(calls, [callback |-> "f", pixels |-> n,
                                     user_data |-> g.user_data])
                 ELSE calls)

CpuRenderer_render(self, text_layout, image_size) ==
    CpuRenderer_render_glyphs(self, GlyphsOfLines(text_layout.lines), image_size, <<>>)

----------------------------------------------------------------------------
(* The atlas cache of the GPU renderer (renderer/gpu_renderer/glyph_cache): *)
(* one square page per configuration, packed in shelves, each entry        *)
(* protected by the batch that touched it.                                 *)

\* GlyphCache::new(configs): one empty page per { texture_size,
\* glyph_size_range }.
GlyphCache_new(configs) ==
    [pages |-> [i \in 1..Len(configs) |->
                  [texture_size |-> configs[i].texture_size,
                   glyph_size_range |-> configs[i].glyph_size_range,
                   shelves |-> <<>>,
                   entries |-> <<>>]],
     current_batch |-> 0]

\* Shelf placement of a bitmap in the free space of a page: on the open
\* shelf when it is not taller than the shelf and fits beside its cursor,
\* otherwise on a new shelf below while vertical space remains.
page_place(page, bitmap) ==
    LET n == Len(page.shelves)
        used == IF n = 0 THEN 0 ELSE page.shelves[n].y + page.shelves[n].height
    IN  IF /\ n > 0
           /\ bitmap.height <= page.shelves[n].height
           /\ page.shelves[n].x + bitmap.width <= page.texture_size
        THEN Some([shelves |-> [page.shelves EXCEPT ![n].x = @ + bitmap.width],
                   x |-> page.shelves[n].x, y |-> page.shelves[n].y])
        ELSE IF /\ bitmap.width <= page.texture_size
                /\ used + bitmap.height <= page.texture_size
        THEN Some([shelves |-> Append(page.shelves,
                                      [y |-> used, height |-> bitmap.height,
                                       x |-> bitmap.width]),
                   x |-> 0, y |-> used])
        ELSE None

\* The entries of a page an older batch touched last and whose slot holds
\* the bitmap.
page_evictable(page, bitmap, current_batch) ==
    {k \in 1..Len(page.entries) :
        /\ page.entries[k].batch_id < current_batch
        /\ page.entries[k].width >= bitmap.width
        /\ page.entries[k].height >= bitmap.height}

GlyphCacheItem(i, page, entry) ==
    [atlas_idx |-> i - 1,
     texture_size |-> page.texture_size,
     glyph_box |-> [x |-> entry.x, y |-> entry.y,
                    width |-> entry.width, height |-> entry.height]]

LeastOf(S) == CHOOSE i \in S : \A j \in S : i <= j

\* GlyphCache::get_or_push_and_protect: a resident glyph is touched; a new
\* one is placed in the first page of its size range that accepts it, in
\* free space or else in the slot of an evictable entry; the entry gets the
\* current batch.  None when no page accepts the glyph.
get_or_push_and_protect(self, glyph_id) ==
    LET bitmap == rasterize(glyph_id)
        size == Max(bitmap.width, bitmap.height)
        pages == self.pages
        resident == {i \in 1..Len(pages) :
                        \E k \in 1..Len(pages[i].entries) :
                            pages[i].entries[k].glyph_id = glyph_id}
        accepting == {i \in 1..Len(pages) :
                         /\ InRange(size, pages[i].glyph_size_range)
                         /\ \/ IsSome(page_place(pages[i], bitmap))
                            \/ page_evictable(pages[i], bitmap, self.current_batch) # {}}
    IN  IF resident # {}
        THEN LET i == LeastOf(resident)
                 k == CHOOSE k \in 1..Len(pages[i].entries) :
                         pages[i].entries[k].glyph_id = glyph_id
             IN  [cache |-> [self EXCEPT !.pages[i].entries[k].batch_id =
                                            self.current_batch],
                  item |-> Some(GlyphCacheItem(i, pages[i], pages[i].entries[k]))]
        ELSE IF accepting # {}
        THEN LET i == LeastOf(accepting)
                 placed == page_place(pages[i], bitmap)
             IN  IF IsSome(placed)
                 THEN LET entry == [glyph_id |-> glyph_id,
                                    x |-> Unwrap(placed).x, y |-> Unwrap(placed).y,
                                    width |-> bitmap.width, height |-> bitmap.height,
                                    batch_id |-> self.current_batch]
                      IN  [cache |-> [self EXCEPT
                                         !.pages[i].shelves = Unwrap(placed).shelves,
                                         !.pages[i].entries = Append(@, entry)],
                           item |-> Some(GlyphCacheItem(i, pages[i], entry))]
                 ELSE LET k == LeastOf(page_evictable(pages[i], bitmap,
                                                      self.current_batch))
                          entry == [pages[i].entries[k] EXCEPT
                                       !.glyph_id = glyph_id,
                                       !.width = bitmap.width,
                                       !.height = bitmap.height,
                                       !.batch_id = self.current_batch]
                      IN  [cache |-> [self EXCEPT !.pages[i].entries[k] = entry],
                           item |-> Some(GlyphCacheItem(i, pages[i], entry))]
        ELSE [cache |-> self, item |-> None]

\* GlyphCache::new_batch: the protection epoch advances.
new_batch(self) == [self EXCEPT !.current_batch = @ + 1]

\* GlyphCache::clear: every placement dropped, every shelf reset.
clear(self) ==
    [self EXCEPT !.pages = [i \in 1..Len(self.pages) |->
                              [self.pages[i] EXCEPT !.shelves = <<>>, !.entries = <<>>]]]

----------------------------------------------------------------------------
(* GpuRenderer (src/renderer/gpu_renderer.rs)                              *)

\* GpuRenderer::new
GpuRenderer_new(configs) == [cache |-> GlyphCache_new(configs)]

\* GpuRenderer::clear_cache
GpuRenderer_clear_cache(self) == [cache |-> clear(self.cache)]

\* What a call leaves behind: the receiver, the callbacks it invoked in
\* order, how it ended ("returned", "warned" when it logged a warning and
\* returned, "panicked"), and the cache items it obtained in order.
Result(self, calls, outcome, items) ==
    [self |-> self, calls |-> calls, outcome |-> outcome, items |-> items]

\* A variant of GpuRenderer_render that passes over each glyph once it has
\* its cache item, starts a new batch for a rejected glyph and goes on to
\* the end of the layout.
RECURSIVE render_glyphs_continuing(_, _, _)
render_glyphs_continuing(self, glyphs, items) ==
    IF glyphs = <<>> THEN Result(self, <<>>, "returned", items)
    ELSE LET got == get_or_push_and_protect(self.cache, glyphs[1].glyph_id)
         IN  render_glyphs_continuing(
                 [cache |-> IF IsSome(got.item) THEN got.cache ELSE new_batch(got.cache)],
                 Tail(glyphs), Append(items, got.item))

GpuRenderer_render_continuing(self, text_layout) ==
    render_glyphs_continuing(self, GlyphsOfLines(text_layout.lines), <<>>)

\* GpuRenderer::render.  update_atlas_list and instance_list are created
\* and never used, and no callback is invoked.  The first glyph of the
\* layout is looked up in the cache; with its item the call stops at the
\* todo!() of the GlyphInstance, without one at the todo!() that precedes
\* new_batch.  A layout without glyphs returns.
GpuRenderer_render(self, text_layout) ==
    LET glyphs == GlyphsOfLines(text_layout.lines)
    IN  IF glyphs = <<>> THEN Result(self, <<>>, "returned", <<>>)
        ELSE LET got == get_or_push_and_protect(self.cache, glyphs[1].glyph_id)
             IN  Result([cache |-> got.cache], <<>>, "panicked", <<got.item>>)

----------------------------------------------------------------------------
(* FontSystem (src/font_system.rs)                                         *)

\* FontSystem::new
FontSystem_new ==
    [font_storage |-> FontStorage_new, cpu_renderer |-> None, gpu_renderer |-> None]

\* FontSystem::load_font_binary
FontSystem_load_font_binary(self, face) ==
    Result([self EXCEPT !.font_storage = load_font_binary(@, face)], <<>>, "returned", <<>>)

\* FontSystem::remove_face
FontSystem_remove_face(self, face) ==
    Result([self EXCEPT !.font_storage = remove_face(@, face)], <<>>, "returned", <<>>)

\* FontSystem::cpu_init: the renderer is dropped, then a new one installed.
cpu_init(self, configs) ==
    LET dropped == [self EXCEPT !.cpu_renderer = None]
    IN  Result([dropped EXCEPT !.cpu_renderer = Some(CpuRenderer_new(configs))],
               <<>>, "returned", <<>>)

\* FontSystem::cpu_cache_clear
cpu_cache_clear(self) ==
    IF IsSome(self.cpu_renderer)
    THEN Result([self EXCEPT !.cpu_renderer =
                    Some(CpuRenderer_clear_cache(Unwrap(self.cpu_renderer)))],
                <<>>, "returned", <<>>)
    ELSE Result(self, <<>>, "warned", <<>>)

\* FontSystem::cpu_render
cpu_render(self, text_layout, image_size) ==
    IF IsSome(self.cpu_renderer)
    THEN LET r == CpuRenderer_render(Unwrap(self.cpu_renderer), text_layout, image_size)
         IN  Result([self EXCEPT !.cpu_renderer = Some(r.renderer)], r.calls,
                    "returned", <<>>)
    ELSE Result(self, <<>>, "warned", <<>>)

\* FontSystem::gpu_init
gpu_init(self, configs) ==
    LET dropped == [self EXCEPT !.gpu_renderer = None]
    IN  Result([dropped EXCEPT !.gpu_renderer = Some(GpuRenderer_new(configs))],
               <<>>, "returned", <<>>)

\* FontSystem::gpu_cache_clear
gpu_cache_clear(self) ==
    IF IsSome(self.gpu_renderer)
    THEN Result([self EXCEPT !.gpu_renderer =
                    Some(GpuRenderer_clear_cache(Unwrap(self.gpu_renderer)))],
                <<>>, "returned", <<>>)
    ELSE Result(self, <<>>, "warned", <<>>)

\* A variant of gpu_render that installs a renderer when there is none.
gpu_render_initialising(self, text_layout) ==
    LET renderer == IF IsSome(self.gpu_renderer) THEN Unwrap(self.gpu_renderer)
                    ELSE GpuRenderer_new(<<>>)
        r == GpuRenderer_render(renderer, text_layout)
    IN  Result([self EXCEPT !.gpu_renderer = Some(r.self)], r.calls, r.outcome, r.items)

\* FontSystem::gpu_render
gpu_render(self, text_layout) ==
    IF IsSome(self.gpu_renderer)
    THEN LET r == GpuRenderer_render(Unwrap(self.gpu_renderer), text_layout)
         IN  Result([self EXCEPT !.gpu_renderer = Some(r.self)], r.calls, r.outcome,
                    r.items)
    ELSE Result(self, <<>>, "warned", <<>>)

\* The record of the last FontSystem call, before any call.
NoCall == [op |-> "none", text_layout |-> None, outcome |-> "returned", items |-> <<>>]

\* The Mutex fields of FontSystem, none of them held.
Mutexes == {"font_storage", "cpu_renderer", "gpu_renderer"}
Unlocked == [m \in Mutexes |-> None]

\* The client threads sharing one FontSystem, and a thread outside any call.
Threads == {"t1", "t2"}
Idle == [op |-> "none", at |-> "idle"]

----------------------------------------------------------------------------
(* The state machine of one layout call                                    *)

Init ==
    /\ config \in Configs
    /\ texts = <<>>
    /\ context = LayoutContext_new
    /\ pc = "layout"
    /\ out = None
    /\ font_system = FontSystem_new
    /\ callbacks = <<>>
    /\ last_call = NoCall
    /\ lookups = <<>>
    /\ locks = Unlocked
    /\ threads = [t \in Threads |-> Idle]
    /\ line_buf = None
    /\ line_records = <<>>
    /\ word_buf = <<>>
    /\ instance_buffer = 0
    /\ current_offset = None
    /\ draws = <<>>

\* The run whose characters the inner loop is iterating.
InRun ==
    /\ pc = "layout"
    /\ texts # <<>>
    /\ IsSome(font(texts[Len(texts)].font_id))

CurFontId == texts[Len(texts)].font_id
CurFont == Unwrap(font(CurFontId))
CurSize == texts[Len(texts)].font_size
CurLineMetrics == Unwrap(horizontal_line_metrics(CurFont, CurSize))
CurUserData == texts[Len(texts)].user_data

Consume(ch) ==
    texts' = [texts EXCEPT ![Len(texts)].content = Append(@, ch)]

\* for text in &self.texts: a run whose font the storage knows and that has
\* horizontal line metrics; its characters follow one by one.
EnterRun ==
    /\ pc = "layout"
    /\ InputSize < MaxInput
    /\ \E rf \in RunFonts, ud \in UserData :
          /\ IsSome(font(rf[1]))
          /\ IsSome(horizontal_line_metrics(Unwrap(font(rf[1])), rf[2]))
          /\ texts' = Append(texts, TextElement(rf[1], rf[2], <<>>, ud))
    /\ UNCHANGED <<config, context, pc, out, session_vars, buffer_vars, wgpu_vars>>

\* A variant of SkipRun that drops the pending line and word fragments.
SkipRun_dropping_pending ==
    /\ pc = "layout"
    /\ InputSize < MaxInput
    /\ \E rf \in RunFonts, ud \in UserData, content \in {<<"A">>} :
          /\ ~IsSome(font(rf[1]))
          /\ InputSize + Len(content) < MaxInput
          /\ texts' = Append(texts, TextElement(rf[1], rf[2], content, ud))
    /\ context' = Context(context.lines, None, None)
    /\ UNCHANGED <<config, pc, out, session_vars, buffer_vars, wgpu_vars>>

\* let Some(font) = font_storage.font(font_id) else { continue }: the whole
\* run is passed over.
SkipRun ==
    /\ pc = "layout"
    /\ InputSize < MaxInput
    /\ \E rf \in RunFonts, ud \in UserData, content \in {<<"A">>} :
          /\ ~IsSome(font(rf[1]))
          /\ InputSize + Len(content) < MaxInput
          /\ texts' = Append(texts, TextElement(rf[1], rf[2], content, ud))
    /\ UNCHANGED <<config, context, pc, out, session_vars, buffer_vars, wgpu_vars>>

\* let Some(line_metrics) = ... else { unimplemented!() }
Unimplemented ==
    /\ pc = "layout"
    /\ InputSize < MaxInput
    /\ \E rf \in RunFonts, ud \in UserData :
          /\ IsSome(font(rf[1]))
          /\ ~IsSome(horizontal_line_metrics(Unwrap(font(rf[1])), rf[2]))
          /\ texts' = Append(texts, TextElement(rf[1], rf[2], <<>>, ud))
    /\ pc' = "panic"
    /\ UNCHANGED <<config, context, out, session_vars, buffer_vars, wgpu_vars>>

Newline ==
    /\ InRun
    /\ InputSize < MaxInput
    /\ \E ch \in Chars \cap HardBreaks :
          /\ Consume(ch)
          /\ context' = handle_newline(context, config)
    /\ UNCHANGED <<config, pc, out, session_vars, buffer_vars, wgpu_vars>>

Space ==
    /\ InRun
    /\ InputSize < MaxInput
    /\ Consume(" ")
    /\ context' = handle_space(context, config, lookup_glyph_index(CurFont, " "), CurFont,
                               CurFontId, CurSize, CurLineMetrics, CurUserData)
    /\ UNCHANGED <<config, pc, out, session_vars, buffer_vars, wgpu_vars>>

Tab ==
    /\ InRun
    /\ InputSize < MaxInput
    /\ Consume("\t")
    /\ context' = handle_tab(context, config, CurFont, CurSize, CurLineMetrics)
    /\ UNCHANGED <<config, pc, out, session_vars, buffer_vars, wgpu_vars>>

Char ==
    /\ InRun
    /\ InputSize < MaxInput
    /\ \E ch \in Chars \ (HardBreaks \cup {" ", "\t"}) :
          /\ Consume(ch)
          /\ context' = handle_char(context, config, lookup_glyph_index(CurFont, ch), CurFont,
                                    CurFontId, CurSize, CurLineMetrics, CurUserData)
    /\ UNCHANGED <<config, pc, out, session_vars, buffer_vars, wgpu_vars>>

\* After the last run: context.flush, then the totals and the final assembly.
Finish ==
    /\ pc = "layout"
    /\ context' = flush(context, config)
    /\ out' = Some(assemble(context'.lines, config))
    /\ pc' = "done"
    /\ UNCHANGED <<config, texts, session_vars, buffer_vars, wgpu_vars>>

Next ==
    \/ EnterRun
    \/ SkipRun
    \/ Unimplemented
    \/ Newline
    \/ Space
    \/ Tab
    \/ Char
    \/ Finish

Spec == Init /\ [][Next]_vars

----------------------------------------------------------------------------
(* Vocabulary of the properties                                            *)

Done == pc = "done"
Layout == Unwrap(out)

IsLetter(ch) == ch \notin HardBreaks \cup {" ", "\t"}
IsGlyphChar(ch) == ch \notin HardBreaks \cup {"\t"}

\* The characters of the runs whose font is known, in input order, each
\* with the font and size of its run.
RECURSIVE InputItems(_)
InputItems(ts) ==
    IF ts = <<>> THEN <<>>
    ELSE LET t == ts[1]
             own == IF IsSome(font(t.font_id))
                    THEN [i \in 1..Len(t.content) |->
                            [ch |-> t.content[i], font_id |-> t.font_id,
                             font_size |-> t.font_size, user_data |-> t.user_data]]
                    ELSE <<>>
         IN  own \o InputItems(Tail(ts))

ItemIsGlyph(item) == IsGlyphChar(item.ch)
ItemGlyphId(item) ==
    GlyphId(item.font_id, lookup_glyph_index(Unwrap(font(item.font_id)), item.ch),
            item.font_size)

\* The glyph ids the input asks for, in reading order.
InputGlyphIds ==
    LET items == SelectSeq(InputItems(texts), ItemIsGlyph)
    IN  [i \in 1..Len(items) |-> ItemGlyphId(items[i])]

\* The glyphs of a layout, line after line.
OutputGlyphIds ==
    LET gs == GlyphsOfLines(Layout.lines)
    IN  [i \in 1..Len(gs) |-> gs[i].glyph_id]

IsHardBreakItem(item) == item.ch \in HardBreaks
NumHardBreaks == Len(SelectSeq(InputItems(texts), IsHardBreakItem))

\* One run of a known font whose content is exactly `content`.
SingleRun(content) ==
    /\ Len(texts) = 1
    /\ IsSome(font(texts[1].font_id))
    /\ texts[1].content = content

KernOrZero(f, left, right, px) ==
    LET k == horizontal_kern_indexed(f, left, right, px)
    IN  IF IsSome(k) THEN Unwrap(k) ELSE 0

----------------------------------------------------------------------------
(* C1 .. C10                                                               *)

\* C1: layout loses no glyph: the returned TextLayout holds as many glyphs
\* as the runs of known fonts hold characters that are neither hard breaks
\* nor tabs, whatever the wrap style.
C1_NoGlyphLost ==
    Done => Len(OutputGlyphIds) = Len(InputGlyphIds)

\* C2: the glyphs of the returned lines, top to bottom, are the glyphs of
\* the input in input order.  Stated under WordWrap, the wrap style whose
\* final flush folds a pending word into a pending line.
C2_GlyphsInInputOrder ==
    (Done /\ config.wrap_style = "WordWrap") => OutputGlyphIds = InputGlyphIds

\* C3: a single run of two letters c1 c2 under the default config yields one
\* line of two glyphs in input order, the first at xmin(c1), the second at
\* advance(c1) + kern(c1, c2) + xmin(c2).
C3_ScenarioA ==
    \A c1 \in Letters, c2 \in Letters :
        (Done /\ config = DefaultConfig /\ SingleRun(<<c1, c2>>)) =>
            LET f == Unwrap(font(texts[1].font_id))
                px == texts[1].font_size
                m1 == metrics(f, c1, px)
                m2 == metrics(f, c2, px)
            IN  /\ Len(Layout.lines) = 1
                /\ Len(Layout.lines[1].glyphs) = 2
                /\ Layout.lines[1].glyphs[1].glyph_id.glyph_index = lookup_glyph_index(f, c1)
                /\ Layout.lines[1].glyphs[2].glyph_id.glyph_index = lookup_glyph_index(f, c2)
                /\ Layout.lines[1].glyphs[1].x = m1.xmin
                /\ Layout.lines[1].glyphs[2].x =
                      m1.advance_width
                      + KernOrZero(f, lookup_glyph_index(f, c1), lookup_glyph_index(f, c2), px)
                      + m2.xmin

\* C4: under NoWrap the layout has 1 + (number of hard breaks) lines, for
\* every max_width.  Stated for the inputs whose last character is not a
\* hard break, so that a line is pending when the input ends.
C4_NoWrapLineCount ==
    LET items == InputItems(texts)
    IN  ( /\ Done
          /\ config.wrap_style = "NoWrap"
          /\ items # <<>>
          /\ items[Len(items)].ch \notin HardBreaks )
        => Len(Layout.lines) = 1 + NumHardBreaks

\* The fragment of the letters items[i..j] laid out alone from the origin.
RECURSIVE WordAlone(_, _, _)
WordAlone(items, i, j) ==
    LET it == items[j]
        f == Unwrap(font(it.font_id))
        lm == Unwrap(horizontal_line_metrics(f, it.font_size))
        idx == lookup_glyph_index(f, it.ch)
    IN  IF j = i
        THEN new(idx, f, it.font_id, it.font_size, lm, it.user_data)
        ELSE push_char(WordAlone(items, i, j - 1), idx, f, it.font_id, it.font_size, lm,
                       it.user_data)

\* items[i..j] is a word: a maximal sequence of letters.
IsWord(items, i, j) ==
    /\ i <= j
    /\ \A k \in i..j : IsLetter(items[k].ch)
    /\ i = 1 \/ ~IsLetter(items[i - 1].ch)
    /\ j = Len(items) \/ ~IsLetter(items[j + 1].ch)

\* The input holds a word, and `limit` is greater than the width of the
\* widest single word.
WiderThanEveryWord(limit) ==
    LET items == InputItems(texts)
    IN  /\ \E i \in 1..Len(items) : IsLetter(items[i].ch)
        /\ \A i \in 1..Len(items), j \in 1..Len(items) :
               IsWord(items, i, j) => WordAlone(items, i, j).instance_length < limit

\* C5: under WordWrap with a finite max_width greater than the width of the
\* widest single word, no line is wider than max_width.
C5_WordWrapWithinMaxWidth ==
    ( /\ Done
      /\ config.wrap_style = "WordWrap"
      /\ IsSome(config.max_width)
      /\ WiderThanEveryWord(Unwrap(config.max_width)) )
    => \A i \in 1..Len(Layout.lines) :
           Layout.lines[i].line_width <= Unwrap(config.max_width)

\* C6: under CharWrap with a finite max_width, every line is at most
\* max_width wide or holds exactly one glyph that is itself wider.
C6_CharWrapWithinMaxWidth ==
    (Done /\ config.wrap_style = "CharWrap" /\ IsSome(config.max_width))
    => \A i \in 1..Len(Layout.lines) :
           LET line == Layout.lines[i]
           IN  \/ line.line_width <= Unwrap(config.max_width)
               \/ /\ Len(line.glyphs) = 1
                  /\ line.glyphs[1].glyph_metrics.width > Unwrap(config.max_width)

\* C7: a single run holding exactly one hard break yields two lines, both
\* without glyphs and of width 0, the first with the line height of the
\* run's font at the run's size.
C7_ScenarioC ==
    \A br \in HardBreaks :
        (Done /\ SingleRun(<<br>>)) =>
            LET f == Unwrap(font(texts[1].font_id))
                lm == Unwrap(horizontal_line_metrics(f, texts[1].font_size))
            IN  /\ Len(Layout.lines) = 2
                /\ \A i \in 1..2 : /\ Layout.lines[i].glyphs = <<>>
                                   /\ Layout.lines[i].line_width = 0
                /\ Layout.lines[1].line_height =
                      (lm.ascent - lm.descent + lm.line_gap) * config.line_height_scale

\* C8: a tab appends no glyph and moves the glyph after it right by
\* advance(space) * tab_size_in_spaces: the run "\tX" under the default
\* config (tab_size_in_spaces = 4) yields one line with the single glyph X
\* at x = 4 * advance(' ') + xmin(X).
C8_ScenarioD ==
    \A c \in Letters :
        (Done /\ config = DefaultConfig /\ SingleRun(<<"\t", c>>)) =>
            LET f == Unwrap(font(texts[1].font_id))
                px == texts[1].font_size
            IN  /\ Len(Layout.lines) = 1
                /\ Len(Layout.lines[1].glyphs) = 1
                /\ Layout.lines[1].glyphs[1].glyph_id.glyph_index = lookup_glyph_index(f, c)
                /\ Layout.lines[1].glyphs[1].x =
                      4 * metrics(f, " ", px).advance_width + metrics(f, c, px).xmin

\* Sum of line_height over the lines of a layout.
RECURSIVE SumOfLineHeights(_)
SumOfLineHeights(ls) ==
    IF ls = <<>> THEN 0 ELSE ls[1].line_height + SumOfLineHeights(Tail(ls))

LineWidths(ls) == {ls[i].line_width : i \in 1..Len(ls)}
Maximum(S) == CHOOSE m \in S : \A x \in S : x <= m

\* C9 as claimed: total_height is the sum of line_height over all lines and
\* total_width is the maximum line_width over all lines (0 without lines).
C9_Totals_AsClaimed ==
    Done =>
        /\ Layout.total_height = SumOfLineHeights(Layout.lines)
        /\ Layout.total_width =
              IF Layout.lines = <<>> THEN 0 ELSE Maximum(LineWidths(Layout.lines))

\* C9 as amended: total_height is the sum of line_height over all lines and
\* total_width is the maximum of 0 and every line_width (a line made only
\* of glyphs drawn left of the origin has a negative line_width).
C9_Totals ==
    Done =>
        /\ Layout.total_height = SumOfLineHeights(Layout.lines)
        /\ Layout.total_width = Maximum({0} \cup LineWidths(Layout.lines))

\* A layout of two lines of different positive widths and heights, the
\* widest first.
C9_Witness ==
    /\ Done
    /\ Len(Layout.lines) = 2
    /\ Layout.lines[1].line_width > Layout.lines[2].line_width
    /\ Layout.lines[2].line_width > 0
    /\ Layout.lines[1].line_height > 0
    /\ Layout.lines[2].line_height > Layout.lines[1].line_height

\* C10 as claimed: every line has top < bottom and bottom - top =
\* line_height.  Stated for the lines that hold a glyph.
C10_Containment_AsClaimed ==
    Done =>
        \A i \in 1..Len(Layout.lines) :
            Layout.lines[i].glyphs # <<>> =>
                /\ Layout.lines[i].top < Layout.lines[i].bottom
                /\ Layout.lines[i].bottom - Layout.lines[i].top = Layout.lines[i].line_height

\* C10 as amended: every line has top <= bottom and bottom - top =
\* line_height; top < bottom when line_height_scale > 0 and the line holds
\* a glyph.
C10_Containment ==
    Done =>
        \A i \in 1..Len(Layout.lines) :
            /\ Layout.lines[i].top <= Layout.lines[i].bottom
            /\ Layout.lines[i].bottom - Layout.lines[i].top = Layout.lines[i].line_height
            /\ (config.line_height_scale > 0 /\ Layout.lines[i].glyphs # <<>>)
                   => Layout.lines[i].top < Layout.lines[i].bottom

\* A layout under a positive scale whose second line holds a glyph and
\* starts where the first, of positive height, ends.
C10_Witness ==
    /\ Done
    /\ config.line_height_scale > 0
    /\ Len(Layout.lines) = 2
    /\ Layout.lines[1].top < Layout.lines[1].bottom
    /\ Layout.lines[2].glyphs # <<>>
    /\ Layout.lines[2].top = Layout.lines[1].bottom
    /\ Layout.lines[2].top < Layout.lines[2].bottom

----------------------------------------------------------------------------
(* C11 .. C20                                                              *)

\* The pen origin a glyph was placed at: its x less its left bearing.
OriginX(g) == g.x - g.glyph_metrics.xmin

SplitRun(ts, r, k) ==
    SubSeq(ts, 1, r - 1)
    \o <<[ts[r] EXCEPT !.content = SubSeq(@, 1, k)],
         [ts[r] EXCEPT !.content = SubSeq(@, k + 1, Len(@))]>>
    \o SubSeq(ts, r + 1, Len(ts))

\* C12: cutting any run in two between two of its characters, both halves
\* with the run's font handle, size and payload, leaves the returned
\* TextLayout as it is: the same lines, glyphs and glyph coordinates.
C12_SplitRunSameLayout ==
    Done => \A r \in 1..Len(texts) : \A k \in 1..(Len(texts[r].content) - 1) :
               layout(SplitRun(texts, r, k), config) = out

\* "AA" in one run of the kerning font against "A" + "A": the second glyph
\* is kerned towards the first in both.
C12_Witness ==
    /\ Done
    /\ Len(texts) = 1
    /\ texts[1].font_id = "F1"
    /\ Len(texts[1].content) >= 2
    /\ SubSeq(texts[1].content, 1, 2) = <<"A", "A">>
    /\ layout(SplitRun(texts, 1, 1), config) = out
    /\ \E i \in 1..Len(Layout.lines) :
          LET gs == Layout.lines[i].glyphs
          IN  /\ Len(gs) >= 2
              /\ gs[1].glyph_id.glyph_index = "A"
              /\ gs[2].glyph_id.glyph_index = "A"
              /\ gs[2].x - gs[1].x < gs[1].glyph_metrics.advance_width

\* The fragments of a context: the committed lines and the pending line and
\* word.
FragmentsOf(self) ==
    {self.lines[i] : i \in 1..Len(self.lines)}
    \cup (IF IsSome(self.line_fragment) THEN {Unwrap(self.line_fragment)} ELSE {})
    \cup (IF IsSome(self.word_fragment) THEN {Unwrap(self.word_fragment)} ELSE {})

SameFontAndSize(a, b) ==
    a.glyph_id.font_id = b.glyph_id.font_id /\ a.glyph_id.font_size = b.glyph_id.font_size

\* C13: in every fragment, a glyph whose predecessor differs from it in font
\* handle or in size is placed with no kerning: its pen origin lies at least
\* the predecessor's advance width after the predecessor's (the kerning
\* adjustments of the fonts are negative).
C13_KerningNeedsSameFontAndSize ==
    \A fragment \in FragmentsOf(context) :
        \A k \in 1..(Len(fragment.buffer) - 1) :
            LET a == fragment.buffer[k]
                b == fragment.buffer[k + 1]
            IN  ~SameFontAndSize(a, b) =>
                    OriginX(b) >= OriginX(a) + a.glyph_metrics.advance_width

\* The pending fragments of the context.
PendingFragments ==
    (IF IsSome(context.line_fragment) THEN {Unwrap(context.line_fragment)} ELSE {})
    \cup (IF IsSome(context.word_fragment) THEN {Unwrap(context.word_fragment)} ELSE {})

\* try_push_char_in_length of the next letter ch of the current run onto a
\* fragment, under the configured width limit.
TryPushNext(fragment, ch) ==
    try_push_char_in_length(fragment, lookup_glyph_index(CurFont, ch), CurFont, CurFontId,
                            CurSize, CurLineMetrics, CurUserData, config_max_length(config))

\* C14: while a run is laid out, whenever try_push_char_in_length of the
\* run's next letter onto a pending fragment, or try_concat_in_length of the
\* pending word onto the pending line, returns true, the receiving
\* fragment's resulting instance_length is not greater than the max_length
\* passed in.
C14_SuccessWithinMaxLength ==
    InRun =>
        /\ \A fragment \in PendingFragments : \A ch \in Letters :
              LET r == TryPushNext(fragment, ch)
              IN  r.result => ~GreaterThan(r.self.instance_length, config_max_length(config))
        /\ (IsSome(context.line_fragment) /\ IsSome(context.word_fragment)) =>
              LET r == try_concat_in_length(Unwrap(context.line_fragment),
                                            Unwrap(context.word_fragment),
                                            config_max_length(config))
              IN  r.result => ~GreaterThan(r.self.instance_length, config_max_length(config))

\* C15: while a run is laid out, whenever try_push_char_in_length of the
\* run's next letter onto a pending fragment returns false the fragment is
\* left exactly as it was, and whenever try_concat_in_length of the pending
\* word onto the pending line returns false both fragments are: glyph
\* buffer with its x values, instance_length, next_origin_x and the three
\* line-metric maxima.
C15_FailureLeavesFragments ==
    InRun =>
        /\ \A fragment \in PendingFragments : \A ch \in Letters :
              LET r == TryPushNext(fragment, ch)
              IN  ~r.result => r.self = fragment
        /\ (IsSome(context.line_fragment) /\ IsSome(context.word_fragment)) =>
              LET r == try_concat_in_length(Unwrap(context.line_fragment),
                                            Unwrap(context.word_fragment),
                                            config_max_length(config))
              IN  ~r.result => /\ r.self = Unwrap(context.line_fragment)
                               /\ r.other = Unwrap(context.word_fragment)

\* A line and a word are pending, the word does not fit the line, and the
\* run's next letter does not fit a fragment whose line metrics it would
\* raise.
C15_Witness ==
    /\ InRun
    /\ IsSome(context.line_fragment)
    /\ IsSome(context.word_fragment)
    /\ ~try_concat_in_length(Unwrap(context.line_fragment), Unwrap(context.word_fragment),
                             config_max_length(config)).result
    /\ \E fragment \in PendingFragments : \E ch \in Letters :
          /\ ~TryPushNext(fragment, ch).result
          /\ fragment.max_ascent < CurLineMetrics.ascent

\* The layout of the input under the configuration but for its horizontal
\* alignment.
LayoutAligned(h) == Unwrap(layout(texts, [config EXCEPT !.horizontal_align = h]))

RightAligned == config.horizontal_align = "Right"

\* container_width as the claims define it: max_width if set, total_width
\* otherwise.
ContainerWidth(l) ==
    IF IsSome(config.max_width) THEN Unwrap(config.max_width) ELSE l.total_width

\* C16: the TextLayout returned under horizontal_align = Right and the
\* layout of the same runs under the same configuration but Left have the
\* same totals and the same lines (count, width, height, top, bottom,
\* glyphs), and every glyph of the Right layout is the Left layout's glyph
\* with x raised by container_width less the width of its line, a negative
\* difference included.
C16_RightIsLeftShifted ==
    (Done /\ RightAligned) =>
        LET L == LayoutAligned("Left")
            R == Layout
        IN  /\ R.total_width = L.total_width
            /\ R.total_height = L.total_height
            /\ Len(R.lines) = Len(L.lines)
            /\ \A i \in 1..Len(L.lines) :
                  LET offset == ContainerWidth(L) - L.lines[i].line_width
                  IN  R.lines[i] =
                        [L.lines[i] EXCEPT !.glyphs =
                            [k \in 1..Len(@) |-> [@[k] EXCEPT !.x = @ + offset]]]

\* A Right layout with a line wider than max_width, whose glyph lies left
\* of where the Left layout has it, and a narrower line holding a glyph.
C16_Witness ==
    /\ Done
    /\ RightAligned
    /\ IsSome(config.max_width)
    /\ \E i \in 1..Len(Layout.lines) :
          /\ Layout.lines[i].glyphs # <<>>
          /\ Layout.lines[i].glyphs[1].x < LayoutAligned("Left").lines[i].glyphs[1].x
    /\ \E i \in 1..Len(Layout.lines) :
          /\ Layout.lines[i].glyphs # <<>>
          /\ Layout.lines[i].glyphs[1].x > LayoutAligned("Left").lines[i].glyphs[1].x

\* The layout of the input under the configuration but for its vertical
\* alignment.
LayoutVAligned(v) == Unwrap(layout(texts, [config EXCEPT !.vertical_align = v]))

\* layout_height as the claims define it: max_height if set, total_height
\* otherwise.
LayoutHeight(l) ==
    IF IsSome(config.max_height) THEN Unwrap(config.max_height) ELSE l.total_height

\* C17: the TextLayout returned under vertical_align = Middle and the layout
\* of the same runs under the same configuration but Top have the same
\* totals and the same lines (count, width, height, glyphs with their x),
\* and every glyph of the Middle layout is the Top layout's glyph with y
\* raised by half of layout_height less total_height.
C17_MiddleIsTopShifted ==
    (Done /\ config.vertical_align = "Middle") =>
        LET T == LayoutVAligned("Top")
            M == Layout
            shift == (LayoutHeight(T) - T.total_height) \div 2
        IN  /\ M.total_width = T.total_width
            /\ M.total_height = T.total_height
            /\ Len(M.lines) = Len(T.lines)
            /\ \A i \in 1..Len(T.lines) :
                  /\ M.lines[i].line_width = T.lines[i].line_width
                  /\ M.lines[i].line_height = T.lines[i].line_height
                  /\ M.lines[i].glyphs =
                        [k \in 1..Len(T.lines[i].glyphs) |->
                            [T.lines[i].glyphs[k] EXCEPT !.y = @ + shift]]

\* A layout under a height limit other than its total height, with two
\* lines of which the second holds a glyph: the Middle layout has the glyph
\* at another y than the Top layout.
C17_Witness ==
    /\ Done
    /\ IsSome(config.max_height)
    /\ Len(LayoutVAligned("Top").lines) >= 2
    /\ LayoutVAligned("Top").lines[2].glyphs # <<>>
    /\ LayoutVAligned("Top").lines[1].line_height > 0
    /\ config.vertical_align = "Middle"
    /\ Layout.lines[2].glyphs[1].y # LayoutVAligned("Top").lines[2].glyphs[1].y

\* C18: measure returns [total_width, total_height] of the TextLayout that
\* the layout call returns for the same runs and configuration, and panics
\* where the layout call panics.
C18_MeasureIsLayoutTotals ==
    /\ Done => measure(texts, config) = Some(<<Layout.total_width, Layout.total_height>>)
    /\ pc = "panic" => measure(texts, config) = None

\* A returned layout of two lines, neither wide nor high as the other, and
\* its measure.
C18_Witness ==
    /\ Done
    /\ Len(Layout.lines) = 2
    /\ Layout.total_width > 0
    /\ Layout.total_height > 0
    /\ Layout.total_width # Layout.total_height
    /\ measure(texts, config) = Some(<<Layout.total_width, Layout.total_height>>)

\* The runs ts without run r.
RemoveRun(ts, r) == SubSeq(ts, 1, r - 1) \o SubSeq(ts, r + 1, Len(ts))

LacksHorizontalMetrics(text) ==
    /\ IsSome(font(text.font_id))
    /\ ~IsSome(horizontal_line_metrics(Unwrap(font(text.font_id)), text.font_size))

\* C19: a run whose font has no horizontal line metrics is skipped: the
\* layout call does not abort, and it returns the TextLayout of the same
\* runs without that run.
C19_NoMetricsRunSkipped ==
    \A r \in 1..Len(texts) :
        LacksHorizontalMetrics(texts[r]) =>
            /\ pc # "panic"
            /\ IsSome(layout(texts, config))
            /\ layout(texts, config) = layout(RemoveRun(texts, r), config)

\* C20: a run whose font handle the font storage does not know is skipped:
\* the layout call returns the TextLayout of the same runs without that
\* run.
C20_UnknownFontRunSkipped ==
    Done => \A r \in 1..Len(texts) :
               ~IsSome(font(texts[r].font_id)) =>
                   /\ layout(RemoveRun(texts, r), config) = out
                   /\ layout(texts, config) = out

\* A run of an unknown font, holding a character, follows a run that left a
\* line pending; the returned layout holds that line's glyph.
C20_Witness ==
    /\ Done
    /\ Len(texts) = 2
    /\ IsSome(font(texts[1].font_id))
    /\ ~IsSome(font(texts[2].font_id))
    /\ texts[2].content # <<>>
    /\ Len(Layout.lines) = 1
    /\ Len(Layout.lines[1].glyphs) = 1
    /\ layout(RemoveRun(texts, 2), config) = out

----------------------------------------------------------------------------
(* C21 .. C30                                                              *)

NothingPending(self) == ~IsSome(self.line_fragment) /\ ~IsSome(self.word_fragment)

\* The step consumes a hard break of the current run.
HardBreakConsumed ==
    /\ InRun
    /\ Len(texts') = Len(texts)
    /\ Len(texts'[Len(texts)].content) = Len(texts[Len(texts)].content) + 1
    /\ texts'[Len(texts)].content[Len(texts'[Len(texts)].content)] \in HardBreaks

\* An empty committed fragment: no glyphs, width 0, zero line metrics.
IsBlankFragment(fragment) ==
    /\ fragment.buffer = <<>>
    /\ fragment.instance_length = 0
    /\ fragment.max_ascent = 0
    /\ fragment.max_descent = 0
    /\ fragment.max_line_gap = 0

\* The hard breaks of the input that follow a hard break or open the input:
\* the ones processed while nothing is pending.
NumHardBreaksOnEmptyLine ==
    LET items == InputItems(texts)
    IN  Cardinality({i \in 1..Len(items) :
                        /\ IsHardBreakItem(items[i])
                        /\ (i = 1 \/ IsHardBreakItem(items[i - 1]))})

\* The lines of the returned layout that are empty: no glyphs, width 0 and
\* height 0.
NumBlankOutputLines ==
    Cardinality({i \in 1..Len(Layout.lines) :
                    /\ Layout.lines[i].glyphs = <<>>
                    /\ Layout.lines[i].line_width = 0
                    /\ Layout.lines[i].line_height = 0})

\* C21: every hard break processed while no line and no word is pending
\* appends exactly one line to the committed lines, an empty one (no
\* glyphs, width 0, ascent, descent and line gap 0), and leaves nothing
\* pending; the returned layout holds one empty line for each such hard
\* break of the input.
C21_BlankLinePerHardBreak ==
    /\ [][(HardBreakConsumed /\ NothingPending(context)) =>
             /\ Len(context'.lines) = Len(context.lines) + 1
             /\ SubSeq(context'.lines, 1, Len(context.lines)) = context.lines
             /\ IsBlankFragment(context'.lines[Len(context'.lines)])
             /\ NothingPending(context')]_vars
    /\ [](Done => NumBlankOutputLines = NumHardBreaksOnEmptyLine)

\* A returned layout with at least two empty lines from consecutive hard
\* breaks.
C21_Witness ==
    /\ Done
    /\ NumHardBreaksOnEmptyLine >= 2
    /\ NumBlankOutputLines = NumHardBreaksOnEmptyLine

\* The step consumes a letter of the current run.
LetterConsumed ==
    /\ InRun
    /\ Len(texts') = Len(texts)
    /\ Len(texts'[Len(texts)].content) = Len(texts[Len(texts)].content) + 1
    /\ IsLetter(texts'[Len(texts)].content[Len(texts'[Len(texts)].content)])

\* The character the step consumes.
ConsumedChar == texts'[Len(texts)].content[Len(texts'[Len(texts)].content)]

\* The pending word with the letter ch of the current run appended.
WordWith(ch) ==
    push_char(Unwrap(context.word_fragment), lookup_glyph_index(CurFont, ch), CurFont,
              CurFontId, CurSize, CurLineMetrics, CurUserData)

\* C30: under WordWrap with a line and a word pending, a letter that would
\* make the word's instance_length exceed max_width commits the pending
\* line and the pending word as two lines in that order and starts a fresh
\* pending word with no pending line; a letter that fits leaves the
\* committed lines and the pending line unchanged.
C30_WordOverflowCommitsBoth ==
    [][(/\ LetterConsumed
        /\ config.wrap_style = "WordWrap"
        /\ IsSome(context.line_fragment)
        /\ IsSome(context.word_fragment)) =>
          IF GreaterThan(WordWith(ConsumedChar).instance_length, config.max_width)
          THEN /\ context'.lines = context.lines \o <<Unwrap(context.line_fragment),
                                                      Unwrap(context.word_fragment)>>
               /\ context'.line_fragment = None
               /\ context'.word_fragment =
                     Some(new(lookup_glyph_index(CurFont, ConsumedChar), CurFont, CurFontId,
                              CurSize, CurLineMetrics, CurUserData))
          ELSE /\ context'.lines = context.lines
               /\ context'.line_fragment = context.line_fragment]_vars

----------------------------------------------------------------------------
(* The state machine of one FontSystem session: each step is one call of   *)
(* a public operation by the single client.                                *)

\* Lookups of the CPU glyph cache between two moments it is empty.
MaxLookups == 3

\* The faces a client loads, the cache configurations it initialises the
\* renderers with, the layouts it renders and the image it renders into.
Faces == {"F1"}
CpuCacheConfigs ==
    { <<[font_size_range |-> <<1, 1>>, capacity |-> 2]>>,
      <<[font_size_range |-> <<1, 1>>, capacity |-> 1],
        [font_size_range |-> <<2, 2>>, capacity |-> 1]>> }
GpuCacheConfigs ==
    { <<[texture_size |-> 4, glyph_size_range |-> <<0, 4>>]>>,
      <<[texture_size |-> 6, glyph_size_range |-> <<0, 4>>],
        [texture_size |-> 8, glyph_size_range |-> <<5, 8>>]>> }
RenderTexts ==
    { <<>>,
      <<TextElement("F1", 1, <<"A">>, "U")>>,
      <<TextElement("F1", 2, <<"A">>, "U")>>,
      <<TextElement("F1", 1, <<"acute">>, "U")>>,
      <<TextElement("F2", 1, <<"A">>, "U")>>,
      <<TextElement("F1", 1, <<"A">>, "U"), TextElement("F1", 2, <<"A">>, "U"),
        TextElement("F1", 1, <<"acute", "\n">>, "U")>> }
Layouts == {Unwrap(layout(ts, DefaultConfig)) : ts \in RenderTexts}
ImageSizes == {<<8, 8>>}

SessionInit ==
    /\ config = DefaultConfig
    /\ texts = <<>>
    /\ context = LayoutContext_new
    /\ pc = "idle"
    /\ out = None
    /\ font_system = FontSystem_new
    /\ callbacks = <<>>
    /\ last_call = NoCall
    /\ lookups = <<>>
    /\ locks = Unlocked
    /\ threads = [t \in Threads |-> Idle]
    /\ line_buf = None
    /\ line_records = <<>>
    /\ word_buf = <<>>
    /\ instance_buffer = 0
    /\ current_offset = None
    /\ draws = <<>>

\* The call op with result r has been made.
Called(op, text_layout, r) ==
    /\ font_system' = r.self
    /\ callbacks' = r.calls
    /\ last_call' = [op |-> op, text_layout |-> text_layout, outcome |-> r.outcome,
                     items |-> r.items]

GlyphIdsOf(text_layout) ==
    LET glyphs == GlyphsOfLines(text_layout.lines)
    IN  [k \in 1..Len(glyphs) |-> glyphs[k].glyph_id]

LoadFontBinary ==
    /\ \E face \in Faces :
          Called("load_font_binary", None, FontSystem_load_font_binary(font_system, face))
    /\ UNCHANGED <<layout_vars, buffer_vars, wgpu_vars, lookups, locks, threads>>

RemoveFace ==
    /\ \E face \in Faces :
          Called("remove_face", None, FontSystem_remove_face(font_system, face))
    /\ UNCHANGED <<layout_vars, buffer_vars, wgpu_vars, lookups, locks, threads>>

CpuInit ==
    /\ \E configs \in CpuCacheConfigs : Called("cpu_init", None, cpu_init(font_system, configs))
    /\ lookups' = <<>>
    /\ UNCHANGED <<layout_vars, buffer_vars, wgpu_vars, locks, threads>>

CpuCacheClear ==
    /\ Called("cpu_cache_clear", None, cpu_cache_clear(font_system))
    /\ lookups' = <<>>
    /\ UNCHANGED <<layout_vars, buffer_vars, wgpu_vars, locks, threads>>

CpuRender ==
    /\ \E text_layout \in Layouts, image_size \in ImageSizes :
          Called("cpu_render", Some(text_layout),
                 cpu_render(font_system, text_layout, image_size))
    /\ UNCHANGED <<layout_vars, buffer_vars, wgpu_vars, lookups, locks, threads>>

GpuInit ==
    /\ \E configs \in GpuCacheConfigs : Called("gpu_init", None, gpu_init(font_system, configs))
    /\ UNCHANGED <<layout_vars, buffer_vars, wgpu_vars, lookups, locks, threads>>

GpuCacheClear ==
    /\ Called("gpu_cache_clear", None, gpu_cache_clear(font_system))
    /\ UNCHANGED <<layout_vars, buffer_vars, wgpu_vars, lookups, locks, threads>>

GpuRender ==
    /\ \E text_layout \in Layouts :
          Called("gpu_render", Some(text_layout), gpu_render(font_system, text_layout))
    /\ UNCHANGED <<layout_vars, buffer_vars, wgpu_vars, lookups, locks, threads>>

SessionNext ==
    \/ LoadFontBinary
    \/ RemoveFace
    \/ CpuInit
    \/ CpuCacheClear
    \/ CpuRender
    \/ GpuInit
    \/ GpuCacheClear
    \/ GpuRender

SessionSpec == SessionInit /\ [][SessionNext]_vars

\* cpu_render with the glyph ids it asks the cache for recorded, while the
\* record has room.
CpuRenderRecorded ==
    /\ \E text_layout \in Layouts, image_size \in ImageSizes :
          /\ IsSome(font_system.cpu_renderer) =>
                Len(lookups) + Len(GlyphIdsOf(text_layout)) <= MaxLookups
          /\ Called("cpu_render", Some(text_layout),
                    cpu_render(font_system, text_layout, image_size))
          /\ lookups' = IF IsSome(font_system.cpu_renderer)
                        THEN lookups \o GlyphIdsOf(text_layout)
                        ELSE lookups
    /\ UNCHANGED <<layout_vars, buffer_vars, wgpu_vars, locks, threads>>

\* The calls that reach the CPU glyph cache.
CpuCacheNext ==
    \/ CpuInit
    \/ CpuCacheClear
    \/ CpuRenderRecorded

CpuCacheSpec == SessionInit /\ [][CpuCacheNext]_vars

----------------------------------------------------------------------------
(* C22 .. C29                                                              *)

\* The step is a call of a render or cache clear whose renderer is None.
UninitialisedCall ==
    \/ /\ last_call'.op \in {"cpu_render", "cpu_cache_clear"}
       /\ ~IsSome(font_system.cpu_renderer)
    \/ /\ last_call'.op \in {"gpu_render", "gpu_cache_clear"}
       /\ ~IsSome(font_system.gpu_renderer)

\* C22: cpu_render, gpu_render, cpu_cache_clear and gpu_cache_clear on a
\* FontSystem whose corresponding renderer is not initialised invoke no
\* callback, leave the renderer uninitialised and the font storage and the
\* other renderer unchanged, and raise no error.
C22_UninitialisedIsNoOp ==
    [][UninitialisedCall =>
          /\ callbacks' = <<>>
          /\ font_system' = font_system
          /\ last_call'.outcome # "panicked"]_vars

C22_Witness ==
    /\ last_call.op \in {"cpu_render", "gpu_render", "cpu_cache_clear", "gpu_cache_clear"}
    /\ last_call.outcome = "warned"
    /\ font_system.font_storage # {}
    /\ IsSome(font_system.cpu_renderer) # IsSome(font_system.gpu_renderer)

\* The callbacks of one kind the last call invoked, in order.
CallbacksOf(kind) ==
    LET OfKind(c) == c.callback = kind
    IN  SelectSeq(callbacks, OfKind)

\* The last call was a gpu_render that reached GpuRenderer::render.
GpuRendered == last_call.op = "gpu_render" /\ last_call.outcome # "warned"
RenderedGlyphs == GlyphsOfLines(Unwrap(last_call.text_layout).lines)
AtlasPages(fs) == Unwrap(fs.gpu_renderer).cache.pages

\* The bitmap of the glyph is wider or taller than every atlas page.
ExceedsEveryPage(glyph_id) ==
    \A i \in 1..Len(AtlasPages(font_system)) :
       \/ rasterize(glyph_id).width > AtlasPages(font_system)[i].texture_size
       \/ rasterize(glyph_id).height > AtlasPages(font_system)[i].texture_size

\* C26: rendering a layout of a single glyph whose bitmap exceeds every
\* configured atlas page emits exactly one StandaloneGlyph and no
\* GlyphInstance, and the render call completes.
C26_OversizedGlyphIsStandalone ==
    (/\ GpuRendered
     /\ Len(RenderedGlyphs) = 1
     /\ ExceedsEveryPage(RenderedGlyphs[1].glyph_id)) =>
        /\ Len(CallbacksOf("on_standalone")) = 1
        /\ CallbacksOf("on_instances") = <<>>
        /\ last_call.outcome = "returned"

\* Every glyph of the layout is resident in page 0 of the atlas.
AllInPageZero(fs, text_layout) ==
    /\ Len(AtlasPages(fs)) >= 1
    /\ \A k \in 1..Len(GlyphIdsOf(text_layout)) :
          \E e \in 1..Len(AtlasPages(fs)[1].entries) :
              AtlasPages(fs)[1].entries[e].glyph_id = GlyphIdsOf(text_layout)[k]

\* C27: rendering a layout of N glyphs a second time without clearing the
\* cache, all N glyphs having fitted in page 0 on the first render,
\* delivers no AtlasUpdate and exactly one instance batch holding all N
\* instances.  (The state is the one the first render left; the second
\* render is the call made from it.)
C27_SecondRenderOneBatch ==
    (/\ GpuRendered
     /\ Len(RenderedGlyphs) >= 1
     /\ AllInPageZero(font_system, Unwrap(last_call.text_layout))) =>
        LET second == gpu_render(font_system, Unwrap(last_call.text_layout))
            OfKind(c) == c.callback = "on_instances"
            Updates(c) == c.callback = "on_atlas_update"
            batches == SelectSeq(second.calls, OfKind)
        IN  /\ SelectSeq(second.calls, Updates) = <<>>
            /\ Len(batches) = 1
            /\ Len(batches[1].instances) = Len(RenderedGlyphs)

\* C28: when the atlas rejects a glyph, render flushes the pending instance
\* batch and the pending atlas updates, calls new_batch() on the atlas and
\* emits exactly one StandaloneGlyph for the glyph, so that the instances
\* of the glyphs before it are delivered before its on_standalone call and
\* those of the glyphs after it later.
C28_RejectionFlushesThenStandalone ==
    [][(/\ last_call'.op = "gpu_render"
        /\ IsSome(font_system.gpu_renderer)
        /\ \E k \in 1..Len(last_call'.items) : last_call'.items[k] = None) =>
          LET Standalone(c) == c.callback = "on_standalone"
              rejected == {k \in 1..Len(last_call'.items) : last_call'.items[k] = None}
          IN  /\ Len(SelectSeq(callbacks', Standalone)) = Cardinality(rejected)
              /\ Unwrap(font_system'.gpu_renderer).cache.current_batch =
                    Unwrap(font_system.gpu_renderer).cache.current_batch
                       + Cardinality(rejected)]_vars

\* The glyph is resident in the atlas, in the slot the item names.
Resident(fs, glyph_id, item) ==
    /\ item.atlas_idx + 1 \in 1..Len(AtlasPages(fs))
    /\ \E e \in 1..Len(AtlasPages(fs)[item.atlas_idx + 1].entries) :
          LET entry == AtlasPages(fs)[item.atlas_idx + 1].entries[e]
          IN  /\ entry.glyph_id = glyph_id
              /\ entry.x = item.glyph_box.x
              /\ entry.y = item.glyph_box.y

RECURSIVE MostRecentDistinct(_, _)
MostRecentDistinct(seq, n) ==
    IF seq = <<>> \/ n = 0 THEN <<>>
    ELSE LET x == seq[Len(seq)]
             Other(e) == e # x
         IN  Append(MostRecentDistinct(SelectSeq(SubSeq(seq, 1, Len(seq) - 1), Other),
                                       n - 1),
                    x)

CpuCaches == Unwrap(font_system.cpu_renderer).caches

\* The lookups that fell to cache i, in order.
LookupsOf(i) ==
    LET Mine(glyph_id) == cpu_cache_index(Unwrap(font_system.cpu_renderer), glyph_id) = i
    IN  SelectSeq(lookups, Mine)

CachedIds(i) == [k \in 1..Len(CpuCaches[i].entries) |-> CpuCaches[i].entries[k].glyph_id]

\* C29: after any sequence of CPU glyph cache lookups each size-range cache
\* holds at most its capacity of entries, and they are exactly the most
\* recently used distinct glyph ids of its size range, in the order of
\* their last use: a hit makes the entry most recently used, a miss at
\* capacity evicts the least recently used entry and no other.
C29_CpuCacheIsLru ==
    IsSome(font_system.cpu_renderer) =>
        \A i \in 1..Len(CpuCaches) :
            /\ Len(CpuCaches[i].entries) <= CpuCaches[i].capacity
            /\ CachedIds(i) = MostRecentDistinct(LookupsOf(i), CpuCaches[i].capacity)

\* A cache at capacity that has seen a hit and has evicted an entry.
C29_Witness ==
    /\ IsSome(font_system.cpu_renderer)
    /\ \E i \in 1..Len(CpuCaches) :
          /\ Len(CpuCaches[i].entries) = CpuCaches[i].capacity
          /\ \E a \in 1..(Len(LookupsOf(i)) - 1) : LookupsOf(i)[a] = LookupsOf(i)[a + 1]
          /\ \E a \in 1..Len(LookupsOf(i)) :
                \A k \in 1..Len(CachedIds(i)) : CachedIds(i)[k] # LookupsOf(i)[a]

----------------------------------------------------------------------------
(* The state machine of the Mutexes: client threads share one FontSystem   *)
(* and each call is split at its lock() calls.  A guard is released at the *)
(* end of the statement or block that took it.                             *)

\* The lock a renderer operation takes first.
RendererOf(op) ==
    IF op \in {"cpu_init", "cpu_cache_clear", "cpu_render"} THEN "cpu_renderer"
    ELSE "gpu_renderer"

\* The layout the threads render.
SharedLayout == Unwrap(layout(<<TextElement("F1", 1, <<"A">>, "U")>>, DefaultConfig))

LockInit ==
    /\ config = DefaultConfig
    /\ texts = <<>>
    /\ context = LayoutContext_new
    /\ pc = "idle"
    /\ out = None
    /\ font_system = FontSystem_new
    /\ callbacks = <<>>
    /\ last_call = NoCall
    /\ lookups = <<>>
    /\ locks = Unlocked
    /\ threads = [t \in Threads |-> Idle]
    /\ line_buf = None
    /\ line_records = <<>>
    /\ word_buf = <<>>
    /\ instance_buffer = 0
    /\ current_offset = None
    /\ draws = <<>>

\* A variant of can_lock that lets a thread in while the Mutex is held.
can_lock_while_held(held, m) == TRUE

\* Mutex::lock returns once no thread holds the Mutex.
can_lock(held, m) == held[m] = None

At(t, op, at) == threads' = [threads EXCEPT ![t] = [op |-> op, at |-> at]]
Acquire(t, m) == locks' = [locks EXCEPT ![m] = Some(t)]
\* A variant of Release that keeps the guards alive.
Release_keeping_guards(ms) == locks' = locks

\* The end of the guards of the Mutexes ms.
Release(ms) == locks' = [m \in Mutexes |-> IF m \in ms THEN None ELSE locks[m]]

\* self.font_storage.lock() of a font loading operation or of layout_text.
LockFontStorage(t) ==
    /\ threads[t] = Idle
    /\ can_lock(locks, "font_storage")
    /\ Acquire(t, "font_storage")
    /\ \E op \in {"load_font_binary", "layout_text"} : At(t, op, "font_storage")
    /\ UNCHANGED <<layout_vars, buffer_vars, wgpu_vars, font_system, callbacks, last_call,
                   lookups>>

\* The operation on the locked font storage, and the end of its guard.
UnlockFontStorage(t) ==
    /\ threads[t].at = "font_storage"
    /\ font_system' = IF threads[t].op = "load_font_binary"
                      THEN [font_system EXCEPT !.font_storage = load_font_binary(@, "F1")]
                      ELSE font_system
    /\ Release({"font_storage"})
    /\ threads' = [threads EXCEPT ![t] = Idle]
    /\ UNCHANGED <<layout_vars, buffer_vars, wgpu_vars, callbacks, last_call, lookups>>

\* self.cpu_renderer.lock() / self.gpu_renderer.lock(): the first lock of
\* an init, a cache clear or a render.
LockRenderer(t) ==
    /\ threads[t] = Idle
    /\ \E op \in {"cpu_init", "cpu_cache_clear", "cpu_render",
                  "gpu_init", "gpu_cache_clear", "gpu_render"} :
          /\ can_lock(locks, RendererOf(op))
          /\ Acquire(t, RendererOf(op))
          /\ At(t, op, "renderer")
    /\ UNCHANGED <<layout_vars, buffer_vars, wgpu_vars, font_system, callbacks, last_call,
                   lookups>>

\* *self.cpu_renderer.lock() = None; the guard ends with the statement.
InitDrop(t) ==
    /\ threads[t].at = "renderer"
    /\ threads[t].op \in {"cpu_init", "gpu_init"}
    /\ font_system' = [font_system EXCEPT ![RendererOf(threads[t].op)] = None]
    /\ Release({RendererOf(threads[t].op)})
    /\ At(t, threads[t].op, "dropped")
    /\ UNCHANGED <<layout_vars, buffer_vars, wgpu_vars, callbacks, last_call, lookups>>

\* The lock() of the second statement of an init.
InitRelock(t) ==
    /\ threads[t].at = "dropped"
    /\ can_lock(locks, RendererOf(threads[t].op))
    /\ Acquire(t, RendererOf(threads[t].op))
    /\ At(t, threads[t].op, "installing")
    /\ UNCHANGED <<layout_vars, buffer_vars, wgpu_vars, font_system, callbacks, last_call,
                   lookups>>

\* ... = Some(Box::new(CpuRenderer::new(configs))); the guard ends.
InitInstall(t) ==
    /\ threads[t].at = "installing"
    /\ \/ /\ threads[t].op = "cpu_init"
          /\ \E configs \in CpuCacheConfigs :
                font_system' = [font_system EXCEPT
                                   !.cpu_renderer = Some(CpuRenderer_new(configs))]
       \/ /\ threads[t].op = "gpu_init"
          /\ \E configs \in GpuCacheConfigs :
                font_system' = [font_system EXCEPT
                                   !.gpu_renderer = Some(GpuRenderer_new(configs))]
    /\ Release({RendererOf(threads[t].op)})
    /\ threads' = [threads EXCEPT ![t] = Idle]
    /\ UNCHANGED <<layout_vars, buffer_vars, wgpu_vars, callbacks, last_call, lookups>>

\* The body of a cache clear under the renderer's lock.
CacheClear(t) ==
    /\ threads[t].at = "renderer"
    /\ threads[t].op \in {"cpu_cache_clear", "gpu_cache_clear"}
    /\ font_system' = IF threads[t].op = "cpu_cache_clear"
                      THEN cpu_cache_clear(font_system).self
                      ELSE gpu_cache_clear(font_system).self
    /\ Release({RendererOf(threads[t].op)})
    /\ threads' = [threads EXCEPT ![t] = Idle]
    /\ UNCHANGED <<layout_vars, buffer_vars, wgpu_vars, callbacks, last_call, lookups>>

\* The else branch of a render: a warning, and the guard ends.
RenderUninitialised(t) ==
    /\ threads[t].at = "renderer"
    /\ threads[t].op \in {"cpu_render", "gpu_render"}
    /\ ~IsSome(font_system[RendererOf(threads[t].op)])
    /\ Release({RendererOf(threads[t].op)})
    /\ threads' = [threads EXCEPT ![t] = Idle]
    /\ UNCHANGED <<layout_vars, buffer_vars, wgpu_vars, font_system, callbacks, last_call,
                   lookups>>

\* &mut self.font_storage.lock() in the arguments of renderer.render.
RenderLockFontStorage(t) ==
    /\ threads[t].at = "renderer"
    /\ threads[t].op \in {"cpu_render", "gpu_render"}
    /\ IsSome(font_system[RendererOf(threads[t].op)])
    /\ can_lock(locks, "font_storage")
    /\ Acquire(t, "font_storage")
    /\ At(t, threads[t].op, "rendering")
    /\ UNCHANGED <<layout_vars, buffer_vars, wgpu_vars, font_system, callbacks, last_call,
                   lookups>>

\* renderer.render under both locks; both guards end with the call (also
\* when it unwinds).
RenderUnlock(t) ==
    /\ threads[t].at = "rendering"
    /\ font_system' = IF threads[t].op = "cpu_render"
                      THEN cpu_render(font_system, SharedLayout, <<8, 8>>).self
                      ELSE gpu_render(font_system, SharedLayout).self
    /\ Release({RendererOf(threads[t].op), "font_storage"})
    /\ threads' = [threads EXCEPT ![t] = Idle]
    /\ UNCHANGED <<layout_vars, buffer_vars, wgpu_vars, callbacks, last_call, lookups>>

LockNext ==
    \/ \E t \in Threads : LockFontStorage(t)
    \/ \E t \in Threads : UnlockFontStorage(t)
    \/ \E t \in Threads : LockRenderer(t)
    \/ \E t \in Threads : InitDrop(t)
    \/ \E t \in Threads : InitRelock(t)
    \/ \E t \in Threads : InitInstall(t)
    \/ \E t \in Threads : CacheClear(t)
    \/ \E t \in Threads : RenderUninitialised(t)
    \/ \E t \in Threads : RenderLockFontStorage(t)
    \/ \E t \in Threads : RenderUnlock(t)

LockSpec == LockInit /\ [][LockNext]_vars

\* The thread is inside a FontSystem call.
InCall(t) == threads[t].at # "idle"

\* The thread is at a point of its call where it uses the component behind
\* the Mutex m.
Accesses(t, m) ==
    \/ m = "font_storage" /\ threads[t].at \in {"font_storage", "rendering"}
    \/ /\ m = RendererOf(threads[t].op)
       /\ threads[t].at \in {"renderer", "installing", "rendering"}

----------------------------------------------------------------------------
(* C31 .. C39                                                              *)

\* The pending word appended to the pending line, whatever the width.
LineWithWord ==
    try_concat_in_length(Unwrap(context.line_fragment), Unwrap(context.word_fragment),
                         None).self

\* C31: on a hard break with a line and a word pending, the word's glyphs
\* are appended after the line's glyphs and the single line is committed
\* when the result fits max_width; otherwise the line and then the word
\* are committed as two lines.  Afterwards nothing is pending and one or
\* two lines were committed.
C31_HardBreakCommitsLineAndWord ==
    [][(/\ HardBreakConsumed
        /\ IsSome(context.line_fragment)
        /\ IsSome(context.word_fragment)) =>
          /\ NothingPending(context')
          /\ Len(context'.lines) - Len(context.lines) \in {1, 2}
          /\ IF ~GreaterThan(LineWithWord.instance_length, config.max_width)
             THEN context'.lines = Append(context.lines, LineWithWord)
             ELSE context'.lines = context.lines \o <<Unwrap(context.line_fragment),
                                                      Unwrap(context.word_fragment)>>]_vars

\* C32: in every returned TextLayout the lines are vertically contiguous
\* and ordered top to bottom: each line starts where the line before it
\* ends, and the last line's bottom minus the first line's top is
\* total_height.
C32_LinesContiguous ==
    Done =>
        /\ \A i \in 1..(Len(Layout.lines) - 1) :
              Layout.lines[i + 1].top = Layout.lines[i].bottom
        /\ Layout.lines # <<>> =>
              Layout.lines[Len(Layout.lines)].bottom - Layout.lines[1].top
                 = Layout.total_height

\* Two lines of different heights below a top that is not 0.
C32_Witness ==
    /\ Done
    /\ Len(Layout.lines) >= 2
    /\ Layout.lines[1].top # 0
    /\ Layout.lines[1].line_height # Layout.lines[2].line_height
    /\ Layout.lines[2].top = Layout.lines[1].bottom

\* The right edge of the last glyph of a fragment, as seen from its pen.
LastGlyphEdge(fragment) ==
    LET m == fragment.buffer[Len(fragment.buffer)].glyph_metrics
    IN  fragment.next_origin_x - m.advance_width + m.xmin + m.width

\* The fragments of the context: the committed lines and the pending ones.
Fragments ==
    {context.lines[i] : i \in 1..Len(context.lines)}
       \cup (IF IsSome(context.line_fragment) THEN {Unwrap(context.line_fragment)} ELSE {})
       \cup (IF IsSome(context.word_fragment) THEN {Unwrap(context.word_fragment)} ELSE {})

\* C33: every fragment that holds at least one glyph has an instance_length
\* of at least the right edge of its last glyph (next_origin_x -
\* last_advance_width + last_xmin + last_width), after every operation that
\* can change it.
C33_LengthCoversLastGlyph ==
    \A fragment \in Fragments :
        fragment.buffer # <<>> => fragment.instance_length >= LastGlyphEdge(fragment)

\* The step consumes a character of the current run.
CharConsumed ==
    /\ InRun
    /\ Len(texts') = Len(texts)
    /\ Len(texts'[Len(texts)].content) = Len(texts[Len(texts)].content) + 1

LineMetricsOf(fragment) ==
    [ascent |-> fragment.max_ascent, descent |-> fragment.max_descent,
     line_gap |-> fragment.max_line_gap]

\* What goes into a step and what comes out of it: a number of glyphs and
\* the line metrics that travel with them.
Piece(n, m) == [glyphs |-> n, metrics |-> m]
PieceOf(fragment) == Piece(Len(fragment.buffer), LineMetricsOf(fragment))
PieceOfOption(o) == IF IsSome(o) THEN <<PieceOf(Unwrap(o))>> ELSE <<>>

\* Into a step go the pending line, the pending word and the character the
\* step consumes: a tab brings no glyph, a hard break nothing at all.  The
\* final flush takes the word before the line.
StepInputs ==
    IF pc' = "done"
    THEN PieceOfOption(context.word_fragment) \o PieceOfOption(context.line_fragment)
    ELSE PieceOfOption(context.line_fragment) \o PieceOfOption(context.word_fragment)
           \o (IF CharConsumed /\ ConsumedChar \notin HardBreaks
               THEN <<Piece(IF ConsumedChar = "\t" THEN 0 ELSE 1, CurLineMetrics)>>
               ELSE <<>>)

\* Out of a step come the lines it commits, then the pending line and word.
StepOutputs ==
    LET committed == SubSeq(context'.lines, Len(context.lines) + 1, Len(context'.lines))
    IN  [i \in 1..Len(committed) |-> PieceOf(committed[i])]
           \o PieceOfOption(context'.line_fragment) \o PieceOfOption(context'.word_fragment)

\* The number of glyphs before each piece of a sequence of at most four.
GlyphsBefore(pieces) ==
    [k \in 1..Len(pieces) |->
        (IF k > 1 THEN pieces[1].glyphs ELSE 0) + (IF k > 2 THEN pieces[2].glyphs ELSE 0)
           + (IF k > 3 THEN pieces[3].glyphs ELSE 0)]

\* The inputs of a step that contribute to each of its outputs.  An input
\* contributes to an output when their glyphs overlap; an input without
\* glyphs (a line of tabs, or the tab consumed) goes with the output at its
\* end of the step, the first one when it leads and the last one otherwise.
Contributions(ins, outs) ==
    LET a == GlyphsBefore(ins)
        c == GlyphsBefore(outs)
        Contributes(i, j) ==
            IF ins[i].glyphs > 0
            THEN a[i] < c[j] + outs[j].glyphs /\ c[j] < a[i] + ins[i].glyphs
            ELSE j = (IF i = 1 THEN 1 ELSE Len(outs))
    IN  [j \in 1..Len(outs) |-> {k \in 1..Len(ins) : Contributes(k, j)}]

\* m is the maximum of the metric values the inputs `from` carry.
IsMaximum(m, ins, from, Metric(_)) ==
    /\ \A i \in from : m >= Metric(ins[i].metrics)
    /\ \E i \in from : m = Metric(ins[i].metrics)

Ascent(m) == m.ascent
Descent(m) == m.descent
LineGap(m) == m.line_gap

\* C34: the line metrics of a fragment are the maxima of the font line
\* metrics over exactly the runs that contributed a glyph or a tab to it.
\* Step by step: every fragment a step commits or leaves pending carries the
\* maxima over the pending fragments that went into it and the run of the
\* glyph or tab it received, and nothing of a fragment that stayed apart.
C34_LineMetricsAreMaxima ==
    [][context' # context =>
          \A ins \in {StepInputs}, outs \in {StepOutputs} :
             \A from \in {Contributions(ins, outs)} :
                \A j \in 1..Len(outs) :
                   from[j] # {} =>
                      /\ IsMaximum(outs[j].metrics.ascent, ins, from[j], Ascent)
                      /\ IsMaximum(outs[j].metrics.descent, ins, from[j], Descent)
                      /\ IsMaximum(outs[j].metrics.line_gap, ins, from[j], LineGap)]_vars

\* A committed line that holds a glyph of a run of F1 and a tab of a run of
\* F2, and carries the larger ascent of F2.
C34_Witness ==
    /\ Done
    /\ \E i \in 1..Len(context.lines), k \in 1..Len(texts) :
          /\ context.lines[i].buffer # <<>>
          /\ context.lines[i].buffer[1].glyph_id.font_id = "F1"
          /\ texts[k].font_id = "F2"
          /\ texts[k].content = <<"\t">>
          /\ context.lines[i].max_ascent
                = Unwrap(horizontal_line_metrics("F2", texts[k].font_size)).ascent
          /\ context.lines[i].max_ascent
                > Unwrap(horizontal_line_metrics("F1", context.lines[i].buffer[1].glyph_id.font_size)).ascent

\* What a TextLayout says about the text: everything but the config it echoes.
LayoutOfText(l) ==
    IF IsSome(l)
    THEN Some([total_height |-> Unwrap(l).total_height,
               total_width |-> Unwrap(l).total_width,
               lines |-> Unwrap(l).lines])
    ELSE None

\* C37: with max_width unset, WordWrap, CharWrap and NoWrap return the same
\* TextLayout for the same text and otherwise equal config: the same lines
\* with the same glyphs at the same positions.
C37_WrapStylesAgreeWithoutLimit ==
    (Done /\ config.max_width = None) =>
        \A w \in WrapStyles :
            LayoutOfText(layout(texts, [config EXCEPT !.wrap_style = w])) = LayoutOfText(out)

\* The Mutexes that guard a renderer.
RendererMutexes == {"cpu_renderer", "gpu_renderer"}

\* C35: re-initialising a renderer is atomic with respect to other threads:
\* no step of an init of an initialised renderer leaves the renderer
\* uninitialised with its lock free, where a concurrent render or cache
\* clear would lock it and observe it as uninitialised.
C35_ReinitIsAtomic ==
    [][\A m \in RendererMutexes :
          (IsSome(font_system[m]) /\ ~IsSome(font_system'[m])) => IsSome(locks'[m])]_vars

\* The Mutexes the thread holds.
HeldBy(t) == {m \in Mutexes : locks[m] = Some(t)}

\* The thread is in a call and its next step is not a lock() that has to
\* wait: the second lock of an init waits for the renderer's Mutex, the
\* font storage lock of a render on an initialised renderer for the font
\* storage's.
CanStep(t) ==
    /\ InCall(t)
    /\ threads[t].at = "dropped" => can_lock(locks, RendererOf(threads[t].op))
    /\ (/\ threads[t].at = "renderer"
        /\ threads[t].op \in {"cpu_render", "gpu_render"}
        /\ IsSome(font_system[RendererOf(threads[t].op)]))
          => can_lock(locks, "font_storage")

\* Some thread that is in a call can take its next step.
NoDeadlock == (\E t \in Threads : InCall(t)) => \E t \in Threads : CanStep(t)

\* A thread that locks a renderer holds no other Mutex: not the font
\* storage, which comes second, and not the other renderer.
RendererLockedFirst ==
    \A t \in Threads, m \in RendererMutexes :
        (locks[m] # Some(t) /\ locks'[m] = Some(t)) => HeldBy(t) = {}

\* C36: threads that call the methods of the FontSystem concurrently never
\* deadlock: after every step, if threads are inside calls one of them can
\* go on; every method takes the renderer's lock before the font storage's,
\* never the reverse, and never holds the locks of two renderers at once.
C36_NoDeadlock ==
    [][RendererLockedFirst /\ NoDeadlock']_vars

\* One thread holds a renderer's lock and waits for the font storage, which
\* the other thread holds.
C36_Witness ==
    \E t1, t2 \in Threads :
        /\ threads[t1].at = "renderer"
        /\ threads[t1].op \in {"cpu_render", "gpu_render"}
        /\ IsSome(font_system[RendererOf(threads[t1].op)])
        /\ locks["font_storage"] = Some(t2)
        /\ ~CanStep(t1)
        /\ CanStep(t2)

----------------------------------------------------------------------------
(* The deprecated line-buffer layout (src/text.rs): LayoutBuffer and       *)
(* TextData::append_fragments_to_line.                                     *)

\* layout::GlyphFragment of the character ch of a run.
GlyphFragment(ch, font_id, font_size) ==
    LET f == Unwrap(font(font_id))
    IN  [ch |-> ch, glyph_idx |-> lookup_glyph_index(f, ch),
         metrics |-> metrics_indexed(f, lookup_glyph_index(f, ch), font_size),
         line_metrics |-> Unwrap(horizontal_line_metrics(f, font_size)),
         font_id |-> font_id, font_size |-> font_size, font |-> f]

\* LayoutBuffer::new
LayoutBuffer_new(glyph_idx, m, line_metrics, font_id, font_size) ==
    [instance_length |-> m.width + m.xmin,
     max_accent |-> line_metrics.ascent,
     max_descent |-> line_metrics.descent,
     max_line_gap |-> line_metrics.line_gap,
     first_glyph |-> glyph_idx, first_font_id |-> font_id, first_font_size |-> font_size,
     last_glyph |-> glyph_idx, last_font_id |-> font_id, last_font_size |-> font_size,
     last_metrics |-> m,
     last_origin_x |-> 0,
     glyphs |-> <<[glyph_id |-> GlyphId(font_id, glyph_idx, font_size),
                   x |-> m.xmin, y |-> -(m.ymin + m.height)]>>]

\* The advance from the last glyph of the buffer to a glyph that follows it:
\* kerned when font and size are the same.
advance_kerned(self, glyph_idx, font_id, font_size) ==
    IF self.last_font_id = font_id /\ self.last_font_size = font_size
    THEN LET k == horizontal_kern_indexed(Unwrap(font(font_id)), self.last_glyph, glyph_idx,
                                          font_size)
         IN  self.last_metrics.advance_width + (IF IsSome(k) THEN Unwrap(k) ELSE 0)
    ELSE self.last_metrics.advance_width

\* LayoutBuffer::push
LayoutBuffer_push(self, glyph_idx, m, line_metrics, font_id, font_size) ==
    LET new_origin_x == self.last_origin_x + advance_kerned(self, glyph_idx, font_id, font_size)
    IN  [self EXCEPT
           !.instance_length = new_origin_x + m.width + m.xmin,
           !.max_accent = Max(@, line_metrics.ascent),
           !.max_descent = Max(@, line_metrics.descent),
           !.max_line_gap = Max(@, line_metrics.line_gap),
           !.last_glyph = glyph_idx, !.last_font_id = font_id, !.last_font_size = font_size,
           !.last_metrics = m,
           !.last_origin_x = new_origin_x,
           !.glyphs = Append(@, [glyph_id |-> GlyphId(font_id, glyph_idx, font_size),
                                 x |-> new_origin_x + m.xmin, y |-> -(m.ymin + m.height)])]

\* LayoutBuffer::projected_concat_length
projected_concat_length(self, other) ==
    self.last_origin_x
       + advance_kerned(self, other.first_glyph, other.first_font_id, other.first_font_size)
       + other.instance_length

\* LayoutBuffer::concat
LayoutBuffer_concat(self, other) ==
    LET x_offset == self.last_origin_x
                      + advance_kerned(self, other.first_glyph, other.first_font_id,
                                       other.first_font_size)
    IN  [self EXCEPT
           !.instance_length = x_offset + other.instance_length,
           !.max_accent = Max(@, other.max_accent),
           !.max_descent = Max(@, other.max_descent),
           !.max_line_gap = Max(@, other.max_line_gap),
           !.last_glyph = other.last_glyph, !.last_font_id = other.last_font_id,
           !.last_font_size = other.last_font_size,
           !.last_metrics = other.last_metrics,
           !.last_origin_x = x_offset + other.last_origin_x,
           !.glyphs = @ \o [i \in 1..Len(other.glyphs) |->
                               [other.glyphs[i] EXCEPT !.x = @ + x_offset]]]

\* LayoutBuffer::width
LayoutBuffer_width(self) == Max(self.instance_length, 0)

\* LayoutBuffer::from_fragments of the first n fragments: None when empty.
RECURSIVE from_fragments_upto(_, _)
from_fragments_upto(fragments, n) ==
    IF n = 0 THEN None
    ELSE LET g == fragments[n]
         IN  IF n = 1
             THEN Some(LayoutBuffer_new(g.glyph_idx, g.metrics, g.line_metrics, g.font_id,
                                        g.font_size))
             ELSE Some(LayoutBuffer_push(Unwrap(from_fragments_upto(fragments, n - 1)),
                                         g.glyph_idx, g.metrics, g.line_metrics, g.font_id,
                                         g.font_size))

\* LayoutBuffer::from_fragments
from_fragments(fragments) == from_fragments_upto(fragments, Len(fragments))

\* The line buffer and the committed lines, as the helpers pass them on.
LineState(buf, records) == [line_buf |-> buf, lines |-> records]

\* TextData::push_line_buffer
push_line_buffer(state) ==
    IF IsSome(state.line_buf)
    THEN LineState(None, Append(state.lines, [buffer |-> state.line_buf, metrics |-> None]))
    ELSE state

\* TextData::finalize_line
finalize_line(state, line_metrics) ==
    IF IsSome(state.line_buf) \/ IsSome(line_metrics)
    THEN LineState(None, Append(state.lines, [buffer |-> state.line_buf,
                                               metrics |-> line_metrics]))
    ELSE state

\* The inner loop of the split: the last fragment of the largest chunk that
\* starts at fragment `start`, reaches fragment `end` and fits.
RECURSIVE chunk_end(_, _, _, _)
chunk_end(fragments, start, end, limit_width) ==
    IF end < Len(fragments)
          /\ ~(LayoutBuffer_width(Unwrap(from_fragments(SubSeq(fragments, start, end + 1))))
                  > limit_width)
    THEN chunk_end(fragments, start, end + 1, limit_width)
    ELSE end

\* The outer loop of the split, from fragment `start` on.
RECURSIVE split_fragments(_, _, _, _)
split_fragments(state, fragments, start, limit_width) ==
    IF start > Len(fragments) THEN state
    ELSE LET single == Unwrap(from_fragments(SubSeq(fragments, start, start)))
         IN  IF LayoutBuffer_width(single) > limit_width
             THEN split_fragments(LineState(Some(single), push_line_buffer(state).lines),
                                  fragments, start + 1, limit_width)
             ELSE LET end == chunk_end(fragments, start, start, limit_width)
                      best == from_fragments(SubSeq(fragments, start, end))
                      placed == LineState(best, push_line_buffer(state).lines)
                  IN  split_fragments(IF end < Len(fragments)
                                      THEN push_line_buffer(placed) ELSE placed,
                                      fragments, end + 1, limit_width)

\* A variant of append_fragments_to_line that splits an over-wide word
\* whatever wrap_hard_break says.
append_fragments_always_splitting(state, fragments, max_width, wrap_style, wrap_hard_break) ==
    LET limit == IF wrap_style = "NoWrap" THEN None ELSE max_width
        buffer == Unwrap(from_fragments(fragments))
    IN  IF fragments = <<>> THEN state
        ELSE IF IsSome(limit)
        THEN IF IsSome(state.line_buf)
                  /\ projected_concat_length(Unwrap(state.line_buf), buffer) <= Unwrap(limit)
             THEN LineState(Some(LayoutBuffer_concat(Unwrap(state.line_buf), buffer)),
                            state.lines)
             ELSE LET pushed == push_line_buffer(state)
                  IN  IF LayoutBuffer_width(buffer) <= Unwrap(limit)
                      THEN LineState(Some(buffer), pushed.lines)
                      ELSE split_fragments(pushed, fragments, 1, Unwrap(limit))
        ELSE IF IsSome(state.line_buf)
        THEN LineState(Some(LayoutBuffer_concat(Unwrap(state.line_buf), buffer)), state.lines)
        ELSE LineState(Some(buffer), state.lines)

\* TextData::append_fragments_to_line
append_fragments_to_line(state, fragments, max_width, wrap_style, wrap_hard_break) ==
    LET limit == IF wrap_style = "NoWrap" THEN None ELSE max_width
        buffer == Unwrap(from_fragments(fragments))
    IN  IF fragments = <<>> THEN state
        ELSE IF IsSome(limit)
        THEN IF IsSome(state.line_buf)
                  /\ projected_concat_length(Unwrap(state.line_buf), buffer) <= Unwrap(limit)
             THEN LineState(Some(LayoutBuffer_concat(Unwrap(state.line_buf), buffer)),
                            state.lines)
             ELSE LET pushed == push_line_buffer(state)
                  IN  IF LayoutBuffer_width(buffer) <= Unwrap(limit)
                      THEN LineState(Some(buffer), pushed.lines)
                      ELSE IF ~wrap_hard_break
                      THEN LineState(Some(buffer), pushed.lines)
                      ELSE split_fragments(pushed, fragments, 1, Unwrap(limit))
        ELSE IF IsSome(state.line_buf)
        THEN LineState(Some(LayoutBuffer_concat(Unwrap(state.line_buf), buffer)), state.lines)
        ELSE LineState(Some(buffer), state.lines)

----------------------------------------------------------------------------
(* The state machine of the line buffer: words are appended one after the  *)
(* other, and a hard break finalizes the line.                             *)

\* The glyphs of the words appended in one behaviour.
MaxGlyphs == 4

\* TextLayoutConfig of text.rs: the width limit, the wrap style and
\* wrap_hard_break decide where a word goes.
LineBufferConfigs ==
    { [max_width |-> mw, wrap_style |-> w, wrap_hard_break |-> b] :
        mw \in MaxWidths, w \in WrapStyles, b \in BOOLEAN }

\* The fragments a word is made of.
WordFragments ==
    {GlyphFragment("A", "F1", 1), GlyphFragment("acute", "F1", 1), GlyphFragment("A", "F2", 1)}

Words(n) == UNION {[1..k -> WordFragments] : k \in 1..n}

\* The glyphs in the line buffer and in the committed lines.
BufferGlyphs(buf) == IF IsSome(buf) THEN Len(Unwrap(buf).glyphs) ELSE 0
RECURSIVE RecordGlyphs(_, _)
RecordGlyphs(records, n) ==
    IF n = 0 THEN 0 ELSE RecordGlyphs(records, n - 1) + BufferGlyphs(records[n].buffer)
GlyphCount == BufferGlyphs(line_buf) + RecordGlyphs(line_records, Len(line_records))

LineBufferInit ==
    /\ config \in LineBufferConfigs
    /\ texts = <<>>
    /\ context = LayoutContext_new
    /\ pc = "idle"
    /\ out = None
    /\ font_system = FontSystem_new
    /\ callbacks = <<>>
    /\ last_call = NoCall
    /\ lookups = <<>>
    /\ locks = Unlocked
    /\ threads = [t \in Threads |-> Idle]
    /\ line_buf = None
    /\ line_records = <<>>
    /\ word_buf = <<>>
    /\ instance_buffer = 0
    /\ current_offset = None
    /\ draws = <<>>

\* append_fragments_to_line(&mut line_buf, &mut lines, &word, ...)
AppendFragmentsToLine ==
    /\ GlyphCount < MaxGlyphs
    /\ \E word \in Words(MaxGlyphs - GlyphCount) :
          LET r == append_fragments_to_line(LineState(line_buf, line_records), word,
                                            config.max_width, config.wrap_style,
                                            config.wrap_hard_break)
          IN  /\ line_buf' = r.line_buf
              /\ line_records' = r.lines
              /\ word_buf' = word
    /\ UNCHANGED <<layout_vars, session_vars, wgpu_vars>>

\* finalize_line(&mut line_buf, &mut lines, Some(line_metric)) at a hard
\* break that ends a line with glyphs.
FinalizeLine ==
    /\ IsSome(line_buf)
    /\ \E rf \in {<<"F1", 1>>} :
          LET r == finalize_line(LineState(line_buf, line_records),
                                 horizontal_line_metrics(Unwrap(font(rf[1])), rf[2]))
          IN  /\ line_buf' = r.line_buf
              /\ line_records' = r.lines
    /\ word_buf' = <<>>
    /\ UNCHANGED <<layout_vars, session_vars, wgpu_vars>>

LineBufferNext ==
    \/ AppendFragmentsToLine
    \/ FinalizeLine

LineBufferSpec == LineBufferInit /\ [][LineBufferNext]_vars

----------------------------------------------------------------------------
(* C38                                                                     *)

\* The step appends the word word_buf' to the line.
WordAppended == word_buf' # <<>> /\ <<line_buf, line_records>> # <<line_buf', line_records'>>

\* The word is wider than the width limit that applies to it.
OverWide(word, cfg) ==
    /\ cfg.wrap_style # "NoWrap"
    /\ IsSome(cfg.max_width)
    /\ LayoutBuffer_width(Unwrap(from_fragments(word))) > Unwrap(cfg.max_width)

\* The lines committed before the word's own: those there were, then the
\* line that was under construction.
LinesBeforeWord == push_line_buffer(LineState(line_buf, line_records)).lines

\* The buffers of the lines the step commits after those.
CommittedForWord ==
    [i \in 1..(Len(line_records') - Len(LinesBeforeWord)) |->
        Unwrap(line_records'[Len(LinesBeforeWord) + i].buffer)]

RECURSIVE ChunkGlyphs(_, _)
ChunkGlyphs(chunks, n) ==
    IF n = 0 THEN 0 ELSE ChunkGlyphs(chunks, n - 1) + Len(chunks[n].glyphs)

\* The buffers are consecutive chunks of the word: each is the buffer of
\* the next fragments of the word, laid out from its own origin; together they
\* hold every fragment once and in order; each fits the limit unless it is a
\* single glyph.
IsSplitOf(chunks, word, limit_width) ==
    /\ chunks # <<>>
    /\ ChunkGlyphs(chunks, Len(chunks)) = Len(word)
    /\ \A i \in 1..Len(chunks) :
          /\ chunks[i] = Unwrap(from_fragments(SubSeq(word, ChunkGlyphs(chunks, i - 1) + 1,
                                                      ChunkGlyphs(chunks, i))))
          /\ \/ LayoutBuffer_width(chunks[i]) <= limit_width
             \/ Len(chunks[i].glyphs) = 1

\* With wrap_hard_break false the word is kept whole, on the line under
\* construction after the step.
KeptWhole ==
    /\ line_records' = LinesBeforeWord
    /\ line_buf' = from_fragments(word_buf')

----------------------------------------------------------------------------
(* The instance buffer of the WgpuRenderer (src/renderer/wgpu_renderer.rs) *)

\* size_of::<InstanceData>() in bytes, and the instances the buffer is
\* created for.
InstanceSize == 64
InstanceCapacity == 1024

\* The draw calls of one render call, and the instances of a batch.
MaxDraws == 3
BatchSizes == {0, 1, 700, 3000}

\* What a draw call leaves: the size of the instance buffer, the offset
\* cell, and the byte range it wrote and drew from, if any.
Drawn(size, offset, range) ==
    [instance_buffer |-> size, current_offset |-> offset, range |-> range]

\* A variant of draw_instances that sizes the buffer for the batch alone.
draw_instances_sized_for_batch(capacity, offset, n) ==
    IF n = 0 THEN Drawn(capacity, offset, None)
    ELSE LET needed_bytes == n * InstanceSize
             size == IF needed_bytes > capacity THEN Max(needed_bytes, capacity * 2)
                     ELSE capacity
             bytes == n * InstanceSize
         IN  Drawn(size, offset + bytes, Some([offset |-> offset, len |-> bytes, size |-> size]))

\* WgpuResources::draw_instances with a batch of n instances.
draw_instances(capacity, offset, n) ==
    IF n = 0 THEN Drawn(capacity, offset, None)
    ELSE LET needed_bytes == offset + n * InstanceSize
             size == IF needed_bytes > capacity THEN Max(needed_bytes, capacity * 2)
                     ELSE capacity
             bytes == n * InstanceSize
         IN  Drawn(size, offset + bytes, Some([offset |-> offset, len |-> bytes, size |-> size]))

\* WgpuResources::draw_standalone
draw_standalone(capacity, offset) ==
    LET needed_bytes == offset + InstanceSize
        size == IF needed_bytes > capacity THEN Max(needed_bytes, capacity * 2) ELSE capacity
    IN  Drawn(size, offset + InstanceSize,
              Some([offset |-> offset, len |-> InstanceSize, size |-> size]))

\* WgpuRenderer::new creates the instance buffer; no render call is running.
WgpuInit ==
    /\ config = DefaultConfig
    /\ texts = <<>>
    /\ context = LayoutContext_new
    /\ pc = "idle"
    /\ out = None
    /\ font_system = FontSystem_new
    /\ callbacks = <<>>
    /\ last_call = NoCall
    /\ lookups = <<>>
    /\ locks = Unlocked
    /\ threads = [t \in Threads |-> Idle]
    /\ line_buf = None
    /\ line_records = <<>>
    /\ word_buf = <<>>
    /\ instance_buffer = InstanceCapacity * InstanceSize
    /\ current_offset = None
    /\ draws = <<>>

\* WgpuRenderer::render: let current_offset = Cell::new(0).
WgpuRenderBegin ==
    /\ current_offset = None
    /\ current_offset' = Some(0)
    /\ draws' = <<>>
    /\ UNCHANGED <<layout_vars, session_vars, buffer_vars, instance_buffer>>

\* The draw call has left r.
AfterDraw(r) ==
    /\ instance_buffer' = r.instance_buffer
    /\ current_offset' = Some(r.current_offset)
    /\ draws' = IF IsSome(r.range) THEN Append(draws, Unwrap(r.range)) ELSE draws
    /\ UNCHANGED <<layout_vars, session_vars, buffer_vars>>

\* The second callback of the render call: a batch of instances.
WgpuDrawInstances ==
    /\ IsSome(current_offset)
    /\ Len(draws) < MaxDraws
    /\ \E n \in BatchSizes : AfterDraw(draw_instances(instance_buffer, Unwrap(current_offset), n))

\* The third callback of the render call: a standalone glyph.
WgpuDrawStandalone ==
    /\ IsSome(current_offset)
    /\ Len(draws) < MaxDraws
    /\ AfterDraw(draw_standalone(instance_buffer, Unwrap(current_offset)))

\* The render call returns.
WgpuRenderEnd ==
    /\ IsSome(current_offset)
    /\ current_offset' = None
    /\ UNCHANGED <<layout_vars, session_vars, buffer_vars, instance_buffer, draws>>

WgpuNext ==
    \/ WgpuRenderBegin
    \/ WgpuDrawInstances
    \/ WgpuDrawStandalone
    \/ WgpuRenderEnd

WgpuSpec == WgpuInit /\ [][WgpuNext]_vars

\* C39: within one WgpuRenderer::render call the byte ranges of the instance
\* buffer used by successive draw_instances and draw_standalone calls start
\* at offset 0, are contiguous and pairwise disjoint, and each lies within
\* the size the buffer has when it is written; the offset cell of a running
\* call stands at the end of the last range, at 0 when the call begins.
C39_RangesContiguousWithinBuffer ==
    /\ draws # <<>> => draws[1].offset = 0
    /\ \A i \in 1..Len(draws) :
          /\ draws[i].len > 0
          /\ draws[i].offset + draws[i].len <= draws[i].size
    /\ \A i \in 1..(Len(draws) - 1) :
          draws[i + 1].offset = draws[i].offset + draws[i].len
    /\ \A i, j \in 1..Len(draws) :
          i < j => draws[i].offset + draws[i].len <= draws[j].offset
    /\ IsSome(current_offset) =>
          Unwrap(current_offset) = IF draws = <<>> THEN 0
                                   ELSE draws[Len(draws)].offset + draws[Len(draws)].len

\* A render call that found the buffer grown by an earlier call starts at
\* offset 0 again, and its second draw grows the buffer once more.
C39_Witness ==
    /\ Len(draws) = 2
    /\ draws[1].offset = 0
    /\ draws[1].size > InstanceCapacity * InstanceSize
    /\ draws[1].len = InstanceSize
    /\ draws[2].size > draws[1].size

=============================================================================
